---- MODULE Spec2Model ----
(***************************************************************************)
(* Model of the data-plane engine of the logger: the job executor          *)
(* (services/job_executor.py) with its worker loop, trigger evaluator and  *)
(* metrics, and the job views that drive it (views/jobs.py).               *)
(*                                                                         *)
(* One job id is modelled: every executor map (_job_threads, _job_stops,   *)
(* _job_metrics, _job_last_values, _job_cooldowns) is keyed by job_id and  *)
(* no executor code relates two job ids, so each map is modelled by its    *)
(* entry for that job.  Thread objects are numbered 1..MaxWorkers in the   *)
(* order start_job creates them.                                           *)
(***************************************************************************)
EXTENDS Integers, Sequences, FiniteSets, TLC

(***************************************************************************)
(* Bounds of the model.                                                    *)
(***************************************************************************)
MaxWorkers == 2      \* thread objects start_job may create in one behaviour
MaxIters == 1        \* loop iterations a worker may begin, concurrent runs
MaxRunIters == 2     \* loop iterations the worker may begin, single run
MaxClock == 3        \* last value of the abstract wall clock (trigger runs)
MaxClients == 3      \* Modbus clients (OPC UA sessions) that may connect
MaxEngines == 2      \* storage engines that may be created
MaxSpan == 3         \* addresses parsed on each side of the end of a range
MaxTargets == 3      \* StorageTarget rows that may exist
MaxCalls == 3        \* calls made on a JobMetrics object that is followed in full

Workers == 1..MaxWorkers
NoThread == 0

Tables == {"t1", "t2"}
Fields == {"temp"}

(***************************************************************************)
(* Values read from a device.  A value is numeric, a string, or None (the  *)
(* read callback stores None for a field whose read failed,                *)
(* views/jobs.py line 290).                                                *)
(***************************************************************************)
NoneV == [k |-> "none", n |-> 0]
Num(n) == [k |-> "num", n |-> n]
Str(n) == [k |-> "str", n |-> n]
IsNum(v) == v.k = "num"
IsNone(v) == v.k = "none"
IsStr(v) == v.k = "str"

EmptyVals == [f \in {} |-> NoneV]

Abs(x) == IF x < 0 THEN -x ELSE x

(***************************************************************************)
(* JobMetrics: the counters of one job.  errors is the length of the       *)
(* error list and message the message of its latest entry.                 *)
(***************************************************************************)
ZeroMetrics ==
    [reads |-> 0, read_errors |-> 0, writes |-> 0, write_errors |-> 0,
     rows_written |-> 0, triggers_evaluated |-> 0, triggers_fired |-> 0,
     triggers_suppressed |-> 0, errors |-> 0, message |-> ""]

record_read(m, success) ==
    IF success THEN [m EXCEPT !.reads = @ + 1]
    ELSE [m EXCEPT !.reads = @ + 1, !.read_errors = @ + 1]

\* a record_write that counts the rows of a failed write as written
record_write_counting_failed(m, rows, success) ==
    IF success THEN [m EXCEPT !.writes = @ + 1, !.rows_written = @ + rows]
    ELSE [m EXCEPT !.writes = @ + 1, !.write_errors = @ + 1,
                   !.rows_written = @ + rows]

record_write(m, rows, success) ==
    IF success THEN [m EXCEPT !.writes = @ + 1, !.rows_written = @ + rows]
    ELSE [m EXCEPT !.writes = @ + 1, !.write_errors = @ + 1]

record_trigger(m, fired, suppressed) ==
    [m EXCEPT !.triggers_evaluated = @ + 1,
              !.triggers_fired = IF fired THEN @ + 1 ELSE @,
              !.triggers_suppressed = IF suppressed THEN @ + 1 ELSE @]

record_error(m, message) ==
    [m EXCEPT !.errors = IF @ < 100 THEN @ + 1 ELSE 100, !.message = message]

(***************************************************************************)
(* JobMetrics in full: the counters together with the two latency windows  *)
(* (read_latencies, write_latencies) and the error list (error_list; the   *)
(* counter errors is its length).  The timestamps last_read_at and         *)
(* last_write_at are left out.                                             *)
(***************************************************************************)
maxlen == 1000
errors_kept == 100
recent_errors == 10

FullMetrics ==
    [reads |-> 0, read_errors |-> 0, writes |-> 0, write_errors |-> 0,
     rows_written |-> 0, triggers_evaluated |-> 0, triggers_fired |-> 0,
     triggers_suppressed |-> 0, errors |-> 0, message |-> "",
     read_latencies |-> <<>>, write_latencies |-> <<>>, error_list |-> <<>>]

\* seq[-n:]
LastN(seq, n) ==
    IF Len(seq) > n THEN SubSeq(seq, Len(seq) - n + 1, Len(seq)) ELSE seq

\* a window that keeps its oldest samples when it is full
deque_append_keeping_oldest(d, x) ==
    IF Len(d) >= maxlen THEN d ELSE Append(d, x)

\* deque(maxlen=1000).append: a full deque drops its leftmost item
deque_append(d, x) ==
    IF Len(d) >= maxlen THEN Append(Tail(d), x) ELSE Append(d, x)

\* JobMetrics.record_read with its latency
record_read_sample(m, latency_ms, success) ==
    IF success
    THEN [record_read(m, TRUE) EXCEPT
             !.read_latencies = deque_append(@, latency_ms)]
    ELSE record_read(m, FALSE)

\* JobMetrics.record_write, line 47: self.writes += 1
record_write_begin(m) == [m EXCEPT !.writes = @ + 1]

\* JobMetrics.record_write, lines 48-53
record_write_end(m, latency_ms, rows, success) ==
    IF success
    THEN [m EXCEPT !.write_latencies = deque_append(@, latency_ms),
                   !.rows_written = @ + rows]
    ELSE [m EXCEPT !.write_errors = @ + 1]

\* JobMetrics.record_write with its latency
record_write_sample(m, latency_ms, rows, success) ==
    record_write_end(record_write_begin(m), latency_ms, rows, success)

\* JobMetrics.record_error with the entry it appends
record_error_entry(m, code, message, timestamp) ==
    [record_error(m, message) EXCEPT
        !.error_list =
            LastN(Append(@, [code |-> code, message |-> message,
                             timestamp |-> timestamp]), errors_kept)]

\* JobMetrics.get_summary: the counters and recent_errors; the averages,
\* the percentiles and the timestamps are left out
get_summary(m) ==
    [reads |-> m.reads, read_errors |-> m.read_errors, writes |-> m.writes,
     write_errors |-> m.write_errors, rows_written |-> m.rows_written,
     triggers_evaluated |-> m.triggers_evaluated,
     triggers_fired |-> m.triggers_fired,
     triggers_suppressed |-> m.triggers_suppressed,
     recent_errors |-> LastN(m.error_list, recent_errors)]

(***************************************************************************)
(* Trigger evaluator (JobExecutor._evaluate_triggers).                     *)
(*                                                                         *)
(* A trigger is [field, operator, value, deadband, cooldown_ms]; value is  *)
(* the threshold, NoneV when null.  Numbers are integers: the code's       *)
(* floats are read in a unit in which every configured number is whole.    *)
(* A Python TypeError (ordering or subtracting a str or None) is the       *)
(* outcome "raise".                                                        *)
(***************************************************************************)
Operators == {"change", "rising", "falling", ">", ">=", "<", "<=", "==", "!="}

\* old_val = last_values.get(field): None when the field was never stored
OldVal(last_values, field) ==
    IF field \in DOMAIN last_values THEN last_values[field] ELSE NoneV

\* line 382: abs(new - old) for int/float new, else the bool (new != old);
\* line 383: a bool is an int in Python, so the bool is compared with the
\* deadband as 1 or 0
ChangeFires(new, old, deadband) ==
    IF IsNone(old) THEN "no"
    ELSE IF IsNum(new)
         THEN IF IsNum(old)
              THEN IF Abs(new.n - old.n) > deadband THEN "fire" ELSE "no"
              ELSE "raise"
         ELSE IF (IF new # old THEN 1 ELSE 0) > deadband THEN "fire" ELSE "no"

\* a <= b, a > b ... between a value and the float threshold
Ordered(op, a, thr) ==
    IF ~IsNum(a) THEN "raise"
    ELSE IF CASE op = ">"  -> a.n > thr.n
              [] op = ">=" -> a.n >= thr.n
              [] op = "<"  -> a.n < thr.n
              [] op = "<=" -> a.n <= thr.n
         THEN "fire" ELSE "no"

\* lines 385-391: old <= threshold and new > threshold (and short-circuits)
EdgeFires(op, new, old, thr) ==
    IF IsNone(old) \/ IsNone(thr) THEN "no"
    ELSE LET first == Ordered(IF op = "rising" THEN "<=" ELSE ">=", old, thr)
         IN IF first # "fire" THEN first
            ELSE Ordered(IF op = "rising" THEN ">" ELSE "<", new, thr)

\* the comparisons without the test for a null threshold
CompareFiresUnguarded(op, new, thr) ==
    IF op = "==" THEN (IF new = thr THEN "fire" ELSE "no")
    ELSE IF op = "!=" THEN (IF new # thr THEN "fire" ELSE "no")
    ELSE Ordered(op, new, thr)

\* lines 393-409
CompareFires(op, new, thr) ==
    IF IsNone(thr) THEN "no"
    ELSE IF op = "==" THEN (IF new = thr THEN "fire" ELSE "no")
    ELSE IF op = "!=" THEN (IF new # thr THEN "fire" ELSE "no")
    ELSE Ordered(op, new, thr)

\* lines 378-409: "fire", "no" or "raise" for one trigger, before cooldown
RawFire(trigger, new, old) ==
    IF trigger.operator = "change" THEN ChangeFires(new, old, trigger.deadband)
    ELSE IF trigger.operator \in {"rising", "falling"}
         THEN EdgeFires(trigger.operator, new, old, trigger.value)
         ELSE CompareFires(trigger.operator, new, trigger.value)

\* lines 413-417: the fire falls inside the cooldown window of (table, field)
Suppressed(trigger, cd, key, now) ==
    /\ trigger.cooldown_ms > 0
    /\ cd[key] >= 0
    /\ now - cd[key] < trigger.cooldown_ms

NoCooldowns == [key \in Tables \X Fields |-> -1]

(***************************************************************************)
(* One pass of the for loop of _evaluate_triggers over triggers[i..].  st  *)
(* is the state the loop carries: the cooldowns dict cd, the metrics m,    *)
(* any_fired, and raised once an exception has left the loop.              *)
(***************************************************************************)
TriggerStep(st, trigger, table_id, values, last_values, now) ==
    IF trigger.field \notin DOMAIN values THEN st
    ELSE LET raw == RawFire(trigger, values[trigger.field],
                            OldVal(last_values, trigger.field))
             key == <<table_id, trigger.field>>
             sup == raw = "fire" /\ Suppressed(trigger, st.cd, key, now)
             m1 == IF sup THEN record_trigger(st.m, TRUE, TRUE) ELSE st.m
             fired == raw = "fire" /\ ~sup
         IN IF raw = "raise" THEN [st EXCEPT !.raised = TRUE]
            ELSE IF fired
                 THEN [st EXCEPT !.cd = [@ EXCEPT ![key] = now],
                                 !.any_fired = TRUE,
                                 !.m = record_trigger(m1, TRUE, FALSE)]
                 ELSE [st EXCEPT !.m = record_trigger(m1, FALSE, FALSE)]

RECURSIVE TriggerLoop(_, _, _, _, _, _, _)
TriggerLoop(st, triggers, i, table_id, values, last_values, now) ==
    IF i > Len(triggers) \/ st.raised THEN st
    ELSE TriggerLoop(TriggerStep(st, triggers[i], table_id, values,
                                 last_values, now),
                     triggers, i + 1, table_id, values, last_values, now)

(***************************************************************************)
(* _evaluate_triggers(job_id, table_id, values, triggers, metrics) on the  *)
(* executor's maps: lv = _job_last_values entry of the job and cds =       *)
(* _job_cooldowns entry, each [present, map].  The result carries the maps *)
(* and metrics as the call leaves them, any_fired and raised.  A missing   *)
(* cooldowns entry is a temporary dict (line 360): its updates are lost.   *)
(* An exception leaves the updates made so far and skips lines 428-433.    *)
(***************************************************************************)
_evaluate_triggers(lv, cds, m, table_id, values, triggers, now) ==
    LET last_values == IF lv.present THEN lv.tab[table_id] ELSE EmptyVals
        cd0 == IF cds.present THEN cds.at ELSE NoCooldowns
        st == TriggerLoop([cd |-> cd0, m |-> m, any_fired |-> FALSE,
                           raised |-> FALSE],
                          triggers, 1, table_id, values, last_values, now)
        tab0 == IF lv.present THEN lv.tab ELSE [t \in Tables |-> EmptyVals]
    IN [raised |-> st.raised,
        any_fired |-> st.any_fired,
        m |-> st.m,
        cds |-> IF cds.present THEN [cds EXCEPT !.at = st.cd] ELSE cds,
        lv |-> IF st.raised THEN lv
               ELSE [present |-> TRUE,
                     tab |-> [tab0 EXCEPT ![table_id] = values]]]

NoLastValues == [present |-> FALSE, tab |-> [t \in Tables |-> EmptyVals]]
NoJobCooldowns == [present |-> FALSE, at |-> NoCooldowns]

(***************************************************************************)
(* State.                                                                  *)
(*   job               the Job row of the catalog and its triggers         *)
(*   runs              the job's JobRun rows, oldest first                 *)
(*   job_threads       _job_threads[job_id]: a thread, or NoThread         *)
(*   job_stops         _job_stops[job_id]: the thread whose stop Event is  *)
(*                     registered, or NoThread                             *)
(*   job_metrics       _job_metrics[job_id]                                *)
(*   job_last_values   _job_last_values[job_id]                            *)
(*   job_cooldowns     _job_cooldowns[job_id]                              *)
(*   workers           the thread objects: position in _run_job_loop, the  *)
(*                     stop Event handed to the thread, the job_config it  *)
(*                     was given, its batch_buffer; iters, napp and wlog   *)
(*                     record its history (iterations begun, rows appended *)
(*                     per table, write calls made per table and how each  *)
(*                     ended, values last read per table)                  *)
(*   nthreads          thread objects created so far                       *)
(*   call              the stop_job call in progress, if any, and whether  *)
(*                     the join of the latest one timed out                *)
(*   resp              the response of the latest request                  *)
(*   clock             datetime.utcnow(), in ms                            *)
(*   env               the scenario, fixed by the initial state: how many  *)
(*                     threads and loop iterations a behaviour may create, *)
(*                     whether the callbacks may fail (return None or      *)
(*                     False, raise), whether the workers' history (napp,  *)
(*                     wlog) is recorded, and the values a field read by a *)
(*                     trigger job may have                                *)
(*   modbus            ModbusService: the client pool and its readers      *)
(*   opcua             OpcuaService: the session pool, the node cache and  *)
(*                     its readers                                         *)
(*   storage           StorageService: the engine pool                     *)
(*   db                the databases behind the storage targets: the       *)
(*                     provider and the tables of each                     *)
(*   ret               the latest call of a function of the services or of *)
(*                     the metrics made from outside the worker, with its  *)
(*                     arguments and the value returned                    *)
(*   orm               the rows of the other models: the keys of the       *)
(*                     SchemaField rows of the schema, the field_key of    *)
(*                     the FieldMapping rows and the mapping_health of     *)
(*                     each DeviceTable, and the StorageTarget rows        *)
(***************************************************************************)
VARIABLES job, runs, job_threads, job_stops, job_metrics, job_last_values,
          job_cooldowns, workers, nthreads, call, resp, clock, env,
          modbus, opcua, storage, db, ret, orm

vars == <<job, runs, job_threads, job_stops, job_metrics, job_last_values,
          job_cooldowns, workers, nthreads, call, resp, clock, env,
          modbus, opcua, storage, db, ret, orm>>

catalog == <<job, runs, orm>>
\* the state outside the executor and the catalog
services == <<modbus, opcua, storage, db, ret>>
executor == <<job_threads, job_stops, job_metrics, job_last_values,
              job_cooldowns>>

NoConfig == [job_type |-> "continuous", interval_ms |-> 0, table_ids |-> <<>>,
             triggers |-> <<>>, batch_size |-> 0]

NewThread ==
    [pc |-> "new", stop |-> FALSE, cfg |-> NoConfig,
     buf |-> [t \in Tables |-> <<>>], idx |-> 0, iters |-> 0,
     napp |-> [t \in Tables |-> 0], wlog |-> [t \in Tables |-> <<>>],
     prev |-> [t \in Tables |-> EmptyVals], loop_start |-> 0, elapsed |-> 0]

\* no stop_job call in progress; kind and timed_out are those of the latest
IdleCall == [pc |-> "idle", kind |-> "stop", thread |-> NoThread,
             timed_out |-> FALSE]

\* Thread.is_alive(): started and _run_job_loop has not returned
Alive(w) == workers[w].pc \notin {"new", "done"}

\* JobExecutor.is_running
is_running == job_threads # NoThread /\ Alive(job_threads)

\* JobViewSet._build_job_config
_build_job_config(j) ==
    [job_type |-> j.job_type, interval_ms |-> j.interval_ms,
     table_ids |-> j.table_ids, triggers |-> j.triggers,
     batch_size |-> j.batch_size]

(***************************************************************************)
(* The values the worker uses: the locals of _run_job_loop, read from the  *)
(* job_config dict the thread was given (lines 268-272).                   *)
(***************************************************************************)
JobTypeOf(w) == workers[w].cfg.job_type
IntervalOf(w) == workers[w].cfg.interval_ms
TableIdsOf(w) == workers[w].cfg.table_ids
TriggersOf(w) == workers[w].cfg.triggers
\* a worker that reads the batch size from the catalog at every use
BatchSizeOfCatalog(w) == job.batch_size

BatchSizeOf(w) == workers[w].cfg.batch_size

(***************************************************************************)
(* JobExecutor.start_job, under _thread_lock.  ok is the value returned.   *)
(***************************************************************************)
start_job(job_config, ok) ==
    IF job_threads # NoThread /\ Alive(job_threads)
    THEN /\ ok = FALSE
         /\ UNCHANGED <<executor, workers, nthreads>>
    ELSE /\ ok = TRUE
         /\ nthreads < env.threads
         /\ nthreads' = nthreads + 1
         /\ job_stops' = nthreads'
         /\ job_metrics' = ZeroMetrics
         /\ workers' = [workers EXCEPT ![nthreads'] =
                           [NewThread EXCEPT !.pc = "init",
                                             !.cfg = job_config]]
         /\ job_threads' = nthreads'
         /\ UNCHANGED <<job_last_values, job_cooldowns>>

\* as StartView, with the checks of lines 60-70 left out
StartViewUnchecked ==
    /\ UNCHANGED <<call, clock, env, services, orm>>
    /\ \E ok \in BOOLEAN :
         /\ start_job(_build_job_config(job), ok)
         /\ IF ok
            THEN /\ job' = [job EXCEPT !.status = "running"]
                 /\ runs' = Append(runs, [open |-> TRUE, rows_written |-> 0])
                 /\ resp' = "started"
            ELSE /\ UNCHANGED catalog
                 /\ resp' = "start_failed"

(***************************************************************************)
(* JobViewSet.start (POST /jobs/{id}/start/).                              *)
(***************************************************************************)
StartView ==
    /\ UNCHANGED <<call, clock, env, services, orm>>
    /\ \/ /\ ~job.enabled
          /\ resp' = "start_disabled"
          /\ UNCHANGED <<catalog, executor, workers, nthreads>>
       \/ /\ job.enabled
          /\ is_running
          /\ resp' = "start_conflict"
          /\ UNCHANGED <<catalog, executor, workers, nthreads>>
       \/ /\ job.enabled
          /\ ~is_running
          /\ \E ok \in BOOLEAN :
               /\ start_job(_build_job_config(job), ok)
               /\ IF ok
                  THEN /\ job' = [job EXCEPT !.status = "running"]
                       /\ runs' = Append(runs, [open |-> TRUE,
                                                rows_written |-> 0])
                       /\ resp' = "started"
                  ELSE /\ UNCHANGED catalog
                       /\ resp' = "start_failed"

(***************************************************************************)
(* The worker: JobExecutor._run_job_loop.  Positions:                      *)
(*   init      started, before line 268                                    *)
(*   loop      at the while test, line 286                                 *)
(*   reading   inside read_callback(table_ids[idx]), line 293              *)
(*   writing   inside write_callback of a full batch, line 316             *)
(*   sleep     inside stop_event.wait(sleep_time), line 334                *)
(*   flushing  inside write_callback of the final flush, line 340          *)
(*   done      _run_job_loop has returned                                  *)
(***************************************************************************)
ReadValues(job_type) ==
    \* a continuous job never looks into the values it reads
    IF job_type = "continuous" THEN {[f \in Fields |-> Num(0)]}
    ELSE [Fields -> env.values]

ReadOutcomes(job_type) ==
    (IF env.faults THEN {[kind |-> "raise", values |-> EmptyVals],
                         [kind |-> "none", values |-> EmptyVals]}
     ELSE {})
    \cup {[kind |-> "values", values |-> v] : v \in ReadValues(job_type)}

WriteOutcomes == IF env.faults THEN {"ok", "fail", "raise"} ELSE {"ok"}

RowIds(buffer) == [i \in 1..Len(buffer) |-> buffer[i].n]

\* lines 268-284
WorkerInit(w) ==
    /\ workers[w].pc = "init"
    /\ workers' = [workers EXCEPT ![w].pc = "loop"]
    /\ IF JobTypeOf(w) = "trigger"
       THEN /\ job_last_values' = [NoLastValues EXCEPT !.present = TRUE]
            /\ job_cooldowns' = [NoJobCooldowns EXCEPT !.present = TRUE]
       ELSE UNCHANGED <<job_last_values, job_cooldowns>>
    /\ UNCHANGED <<catalog, job_threads, job_stops, job_metrics, nthreads,
                   call, resp, clock, env, services>>

\* line 275: interval_sec = interval_ms / 1000.  The clock counts seconds
\* and the intervals of the jobs are whole seconds.
interval_sec(interval_ms) == interval_ms \div 1000

\* a sleep of the whole interval whatever time the iteration took
sleep_time_whole(interval_ms, elapsed) == interval_sec(interval_ms)

\* line 332: sleep_time = max(0, interval_sec - elapsed)
sleep_time(interval_ms, elapsed) ==
    IF interval_sec(interval_ms) - elapsed > 0
    THEN interval_sec(interval_ms) - elapsed
    ELSE 0

\* lines 330-334: the for loop is over and elapsed is measured.  Where time
\* is not followed (env.timed is false) no time has passed, and
\* sleep_time > 0 needs interval_ms > 0.
EndIteration(wr, interval_ms) ==
    LET elapsed == IF env.timed THEN clock - wr.loop_start ELSE 0
    IN [wr EXCEPT !.pc = IF env.timed
                         THEN IF sleep_time(interval_ms, elapsed) > 0
                              THEN "sleep" ELSE "loop"
                         ELSE IF interval_ms > 0 THEN "sleep" ELSE "loop",
                  !.idx = 0, !.elapsed = elapsed]

\* the next table of the for loop of line 289, or the end of the iteration
AfterTable(wr, table_ids, interval_ms) ==
    IF wr.idx < Len(table_ids)
    THEN [wr EXCEPT !.pc = "reading", !.idx = @ + 1]
    ELSE EndIteration(wr, interval_ms)

\* history: write_callback(table_id, buffer) is called
Called(wr, table_id, buffer, kind) ==
    IF env.history
    THEN [wr EXCEPT !.wlog[table_id] =
                        Append(@, [rows |-> RowIds(buffer), kind |-> kind,
                                   out |-> "pending"])]
    ELSE wr

\* lines 337-342: the flush loop from table i on, up to the next write call
RECURSIVE FlushFrom(_, _, _)
FlushFrom(wr, table_ids, i) ==
    IF i > Len(table_ids) THEN [wr EXCEPT !.pc = "done", !.idx = 0]
    ELSE IF wr.buf[table_ids[i]] # <<>>
         THEN Called([wr EXCEPT !.pc = "flushing", !.idx = i],
                     table_ids[i], wr.buf[table_ids[i]], "flush")
         ELSE FlushFrom(wr, table_ids, i + 1)

\* a loop that never tests the Event
KeepLoopingForever(w) == TRUE

\* line 286: the while test
KeepLooping(w) == ~workers[w].stop

LoopTest(w) ==
    /\ workers[w].pc = "loop"
    /\ IF KeepLooping(w)
       THEN /\ workers[w].iters < env.iters
            /\ workers' = [workers EXCEPT ![w] =
                 AfterTable([@ EXCEPT !.iters = @ + 1, !.idx = 0,
                                      !.loop_start =
                                          IF env.timed THEN clock ELSE 0],
                            TableIdsOf(w), IntervalOf(w))]
       ELSE workers' = [workers EXCEPT ![w] = FlushFrom(@, TableIdsOf(w), 1)]
    /\ UNCHANGED <<catalog, executor, nthreads, call, resp, clock, env,
                   services>>

\* lines 308-323 up to the write call: append the row, call write_callback
\* when the batch is full
AppendRow(wr, table_id, values, batch_size, table_ids, interval_ms) ==
    LET n == IF env.history THEN wr.napp[table_id] + 1 ELSE 0
        \* line 310: the row carries the time of the append
        buffer == Append(wr.buf[table_id],
                         [n |-> n, values |-> values, timestamp_utc |-> clock])
        wr1 == [wr EXCEPT !.napp[table_id] = n, !.buf[table_id] = buffer]
    IN IF Len(buffer) >= batch_size
       THEN Called([wr1 EXCEPT !.pc = "writing"], table_id, buffer, "batch")
       ELSE AfterTable(wr1, table_ids, interval_ms)

\* history: read_callback(table_id) returned values
Read(wr, table_id, values) ==
    IF env.history THEN [wr EXCEPT !.prev[table_id] = values] ELSE wr

\* an except clause that records the error but no failed read
LoopErrorUncounted(m, message) == record_error(m, message)

\* lines 325-328: the except clause of the loop body
LoopError(m, message) == record_read(record_error(m, message), FALSE)

\* lines 293-311 and 325-328: read_callback returns or raises
ReadReturns(w, out) ==
    LET wr == workers[w]
        table_id == TableIdsOf(w)[wr.idx]
        m1 == record_read(job_metrics, TRUE)
        ev == _evaluate_triggers(job_last_values, job_cooldowns, m1, table_id,
                                 out.values, TriggersOf(w), clock)
    IN /\ wr.pc = "reading"
       /\ CASE out.kind = "raise" ->
                 /\ job_metrics' = LoopError(job_metrics, "read raised")
                 /\ workers' = [workers EXCEPT ![w] =
                                  AfterTable(wr, TableIdsOf(w), IntervalOf(w))]
                 /\ UNCHANGED <<job_last_values, job_cooldowns>>
            [] out.kind = "none" ->
                 /\ job_metrics' = m1
                 /\ workers' = [workers EXCEPT ![w] =
                                  AfterTable(wr, TableIdsOf(w), IntervalOf(w))]
                 /\ UNCHANGED <<job_last_values, job_cooldowns>>
            [] out.kind = "values" /\ JobTypeOf(w) = "continuous" ->
                 /\ job_metrics' = m1
                 /\ workers' = [workers EXCEPT ![w] =
                                  AppendRow(Read(wr, table_id, out.values),
                                            table_id, out.values,
                                            BatchSizeOf(w), TableIdsOf(w),
                                            IntervalOf(w))]
                 /\ UNCHANGED <<job_last_values, job_cooldowns>>
            [] out.kind = "values" /\ JobTypeOf(w) # "continuous" ->
                 /\ job_metrics' = IF ev.raised THEN LoopError(ev.m, "TypeError")
                                  ELSE ev.m
                 /\ job_last_values' = ev.lv
                 /\ job_cooldowns' = ev.cds
                 /\ workers' = [workers EXCEPT ![w] =
                      IF ~ev.raised /\ ev.any_fired
                      THEN AppendRow(Read(wr, table_id, out.values), table_id,
                                     out.values, BatchSizeOf(w),
                                     TableIdsOf(w), IntervalOf(w))
                      ELSE AfterTable(Read(wr, table_id, out.values),
                                      TableIdsOf(w), IntervalOf(w))]
       /\ UNCHANGED <<catalog, job_threads, job_stops, nthreads, call, resp,
                      clock, env>>

\* read_callback is any callable: it returns values or None, or raises
ReadReturn(w, out) ==
    /\ out \in ReadOutcomes(JobTypeOf(w))
    /\ ReadReturns(w, out)
    /\ UNCHANGED services

\* history: the outcome of the write call in progress on table_id
Returned(wr, table_id, out) ==
    IF env.history
    THEN [wr EXCEPT !.wlog[table_id][Len(wr.wlog[table_id])].out = out]
    ELSE wr

\* lines 316-328: write_callback of a full batch returns True, returns
\* False, or raises (the except clause then skips line 323)
WriteReturns(w, out) ==
    LET wr == workers[w]
        table_id == TableIdsOf(w)[wr.idx]
        rows == Len(wr.buf[table_id])
    IN /\ wr.pc = "writing"
       /\ job_metrics' = IF out = "raise"
                          THEN LoopError(job_metrics, "write raised")
                          ELSE record_write(job_metrics, rows, out = "ok")
       /\ workers' = [workers EXCEPT ![w] =
            AfterTable(IF out = "raise" THEN Returned(wr, table_id, out)
                       ELSE [Returned(wr, table_id, out)
                                EXCEPT !.buf[table_id] = <<>>],
                       TableIdsOf(w), IntervalOf(w))]
       /\ UNCHANGED <<catalog, job_threads, job_stops, job_last_values,
                      job_cooldowns, nthreads, call, resp, clock, env>>

\* write_callback is any callable: it returns True or False, or raises
WriteReturn(w, out) ==
    /\ out \in WriteOutcomes
    /\ WriteReturns(w, out)
    /\ UNCHANGED services

\* line 334: stop_event.wait(sleep_time) returns because the time is up:
\* sleep_time has passed
SleepTimeout(w) ==
    /\ workers[w].pc = "sleep"
    /\ workers' = [workers EXCEPT ![w].pc = "loop"]
    /\ clock' = IF env.timed
                THEN clock + sleep_time(IntervalOf(w), workers[w].elapsed)
                ELSE clock
    /\ clock' <= MaxClock
    /\ UNCHANGED <<catalog, executor, nthreads, call, resp, env, services>>

\* line 334: stop_event.wait(sleep_time) returns because the Event is set
SleepInterrupted(w) ==
    /\ workers[w].pc = "sleep"
    /\ workers[w].stop
    /\ workers' = [workers EXCEPT ![w].pc = "loop"]
    /\ UNCHANGED <<catalog, executor, nthreads, call, resp, clock, env,
                   services>>

\* lines 339-342: the flush write returns or raises; the result is dropped
\* either way and the loop goes to the next buffer
\* as AfterFlush, with the try of lines 339-342 left out: the exception
\* leaves the flush loop
AfterFlushUncaught(wr, table_ids, out) ==
    IF out = "raise"
    THEN [Returned(wr, table_ids[wr.idx], out) EXCEPT !.pc = "done", !.idx = 0]
    ELSE FlushFrom(Returned(wr, table_ids[wr.idx], out), table_ids, wr.idx + 1)

AfterFlush(wr, table_ids, out) ==
    FlushFrom(Returned(wr, table_ids[wr.idx], out), table_ids, wr.idx + 1)

FlushReturns(w, out) ==
    /\ workers[w].pc = "flushing"
    /\ workers' = [workers EXCEPT ![w] = AfterFlush(@, TableIdsOf(w), out)]
    /\ UNCHANGED <<catalog, executor, nthreads, call, resp, clock, env>>

FlushReturn(w, out) ==
    /\ out \in WriteOutcomes
    /\ FlushReturns(w, out)
    /\ UNCHANGED services

(***************************************************************************)
(* JobExecutor.stop_job, called by the stop and pause views and by         *)
(* stop_all_jobs.  The call holds _thread_lock twice, with the join        *)
(* between: call.pc = "join" while it waits outside the lock.              *)
(***************************************************************************)
Kinds == {"stop", "pause", "stop_all"}

\* lines 203-211: not found, or set the Event and go on to the join
StopBegin(kind) ==
    /\ call.pc = "idle"
    /\ kind \in {"stop", "pause"}
    /\ IF job_stops = NoThread \/ job_threads = NoThread
       THEN /\ resp' = "stop_not_found"
            /\ UNCHANGED <<workers, call>>
       ELSE /\ workers' = [workers EXCEPT ![job_stops].stop = TRUE]
            /\ call' = [pc |-> "join", kind |-> kind, thread |-> job_threads,
                        timed_out |-> FALSE]
            /\ UNCHANGED resp
    /\ UNCHANGED <<catalog, executor, nthreads, clock, env, services>>

\* JobViewSet.stop_all with JobExecutor.stop_all_jobs, lines 230-240: no job
\* registered, or stop_job on the registered one
StopAllBegin ==
    /\ call.pc = "idle"
    /\ IF job_threads = NoThread
       THEN /\ job' = [job EXCEPT
                          !.status = IF @ = "running" THEN "stopped" ELSE @]
            /\ resp' = "stop_all_done"
            /\ UNCHANGED <<workers, call>>
       ELSE /\ workers' = [workers EXCEPT ![job_stops].stop = TRUE]
            /\ call' = [pc |-> "join", kind |-> "stop_all",
                        thread |-> job_threads, timed_out |-> FALSE]
            /\ UNCHANGED <<job, resp>>
    /\ UNCHANGED <<runs, orm, executor, nthreads, clock, env, services>>

\* JobViewSet._finalize_job_run: the latest run with stopped_at unset gets
\* stopped_at and the counters of the metrics summary
_finalize_job_run(rs, m) ==
    LET open == {i \in 1..Len(rs) : rs[i].open}
        latest == CHOOSE i \in open : \A j \in open : j <= i
    IN IF open = {} THEN rs
       ELSE [rs EXCEPT ![latest] = [open |-> FALSE,
                                    rows_written |-> m.rows_written]]

\* lines 217-224, then the rest of the view that called stop_job
StopFinish ==
    /\ call.pc = "join"
    /\ job_threads' = NoThread
    /\ job_stops' = NoThread
    /\ job_last_values' = NoLastValues
    /\ job_cooldowns' = NoJobCooldowns
    /\ call' = [IdleCall EXCEPT !.kind = call.kind,
                                !.timed_out = Alive(call.thread)]
    /\ CASE call.kind = "stop" ->
              /\ job' = [job EXCEPT !.status = "stopped"]
              /\ runs' = _finalize_job_run(runs, job_metrics)
              /\ resp' = "stopped"
         [] call.kind = "pause" ->
              /\ job' = [job EXCEPT !.status = "paused"]
              /\ runs' = _finalize_job_run(runs, job_metrics)
              /\ resp' = "paused"
         [] call.kind = "stop_all" ->
              /\ job' = [job EXCEPT
                            !.status = IF @ = "running" THEN "stopped" ELSE @]
              /\ runs' = runs
              /\ resp' = "stop_all_done"
    /\ UNCHANGED <<job_metrics, workers, nthreads, clock, env, services,
                   orm>>

\* lines 214-215: the thread has ended (or had ended before the join)
StopJoined ==
    /\ call.pc = "join"
    /\ ~Alive(call.thread)
    /\ StopFinish

\* line 215: join(timeout=5.0) returns with the thread still alive.  Five
\* seconds pass only while the thread is inside a callback: its other steps
\* take no time and the sleep ends as soon as the Event is set.
StopTimedOut ==
    /\ call.pc = "join"
    /\ workers[call.thread].pc \in {"reading", "writing", "flushing"}
    /\ StopFinish

(***************************************************************************)
(* The state outside the services: the catalog, the executor and the       *)
(* scenario.                                                               *)
(***************************************************************************)
core ==
    <<catalog, executor, workers, nthreads, call, resp, clock, env, db, ret>>

(***************************************************************************)
(* ModbusService (services/modbus_service.py), a process-wide singleton.   *)
(*   modbus.clients    _clients: the client pooled for a (host, port)      *)
(*   modbus.connected  client.connected, for every client that connected   *)
(*   modbus.nclients   clients that connected so far                       *)
(*   modbus.readers    the threads inside read_registers: the position,    *)
(*                     the key and the client _get_client returned         *)
(* Positions of a reader:                                                  *)
(*   idle      outside read_registers                                      *)
(*   io        inside the register read on its client, lines 164-182       *)
(*   except    the read has raised, before _drop_client of line 186        *)
(*   returned  read_registers has returned the registers                   *)
(*   raised    read_registers has raised the exception of the read         *)
(*   refused   read_registers has raised the ConnectionError of line 69    *)
(***************************************************************************)
Devices == {"plc1", "plc2"}
Clients == 1..MaxClients
NoClient == 0

IdleReader == [pc |-> "idle", key |-> "plc1", client |-> NoClient]

\* ModbusService.__init__, lines 39-40
NoModbus ==
    [clients |-> [k \in Devices |-> NoClient],
     connected |-> [c \in Clients |-> FALSE],
     nclients |-> 0,
     readers |-> [r \in Workers |-> IdleReader]]

\* line 54: the pooled client is reused
ModbusReuses(mb, key) ==
    mb.clients[key] # NoClient /\ mb.connected[mb.clients[key]]

\* ModbusService._get_client, under _client_lock.  connects is the value of
\* client.connect(); client is NoClient when ConnectionError is raised.
modbus_get_client(mb, key, connects) ==
    IF ModbusReuses(mb, key)
    THEN [mb |-> mb, client |-> mb.clients[key]]
    ELSE IF connects
         THEN LET c == mb.nclients + 1
              IN [mb |-> [mb EXCEPT !.nclients = c, !.clients[key] = c,
                                    !.connected[c] = TRUE],
                  client |-> c]
         ELSE [mb |-> mb, client |-> NoClient]

\* ModbusService._drop_client, under _client_lock: pop and close
modbus_drop_client(mb, key) ==
    IF mb.clients[key] = NoClient THEN mb
    ELSE [mb EXCEPT !.clients[key] = NoClient,
                    !.connected[mb.clients[key]] = FALSE]

\* read_registers, line 162: _get_client is called outside the try, so its
\* ConnectionError leaves read_registers without _drop_client
ReadRegistersCall(r, key, connects) ==
    LET got == modbus_get_client(modbus, key, connects)
    IN /\ modbus.readers[r].pc = "idle"
       /\ got.mb.nclients <= MaxClients
       /\ modbus' = [got.mb EXCEPT !.readers[r] =
                       IF got.client = NoClient
                       THEN [pc |-> "refused", key |-> key, client |-> NoClient]
                       ELSE [pc |-> "io", key |-> key, client |-> got.client]]

\* what the register read of lines 164-182 may do: return the registers,
\* fail with a socket error (the client closes its socket), or fail with
\* the socket left open (an error response, line 177).  A client that is
\* not connected cannot answer.
IoOutcomes(mb, r) ==
    IF mb.connected[mb.readers[r].client] THEN {"ok", "socket", "protocol"}
    ELSE {"socket"}

\* lines 164-184: the register read, outside _client_lock, ends
ReadRegistersIo(r, out) ==
    /\ modbus.readers[r].pc = "io"
    /\ out \in IoOutcomes(modbus, r)
    /\ modbus' = [modbus EXCEPT
         !.readers[r].pc = IF out = "ok" THEN "returned" ELSE "except",
         !.connected[modbus.readers[r].client] = IF out = "socket" THEN FALSE
                                                 ELSE @]

\* lines 184-187: drop the client pooled for the key, raise
ReadRegistersExcept(r) ==
    /\ modbus.readers[r].pc = "except"
    /\ modbus' = [modbus_drop_client(modbus, modbus.readers[r].key)
                    EXCEPT !.readers[r].pc = "raised"]

\* the caller of read_registers has its result
ReadRegistersEnd(r) ==
    /\ modbus.readers[r].pc \in {"returned", "raised", "refused"}
    /\ modbus' = [modbus EXCEPT !.readers[r] = IdleReader]

\* ModbusService.disconnect, called by DeviceViewSet.disconnect
ModbusDisconnect(key) ==
    modbus' = modbus_drop_client(modbus, key)

(***************************************************************************)
(* OpcuaService (services/opcua_service.py), a process-wide singleton.     *)
(*   opcua.clients    _clients: the session pooled for an endpoint         *)
(*   opcua.connected  whether the session of a client is open              *)
(*   opcua.nclients   clients that connected so far                        *)
(*   opcua.creds      the user and password set on a client before it      *)
(*                    connected (none for an anonymous session)            *)
(*   opcua.nodes      _nodes: for (endpoint, node_id) the client whose     *)
(*                    get_node made the cached handle, or NoClient         *)
(*   opcua.readers    the threads inside read_value: the position, the     *)
(*                    endpoint, node_id and authentication arguments, the  *)
(*                    client and the handle (the client it belongs to) the *)
(*                    thread holds                                         *)
(* Positions of a reader:                                                  *)
(*   idle      outside read_value                                          *)
(*   lookup    has its client, before the cache lookup of _get_node        *)
(*   resolve   the node was not cached: client.get_node, outside the lock  *)
(*   io        inside node.get_value()                                     *)
(*   except    read_value has caught an exception, before _drop_client     *)
(*   returned  read_value has returned the value                           *)
(*   raised    read_value has raised                                       *)
(***************************************************************************)
Endpoints == {"opc1"}
NodeIds == {"ns=2;i=1", "ns=2;i=2"}

\* the defaults of read_value and _get_client: auth_type='Anonymous',
\* username='', password=''
Anonymous == [auth_type |-> "Anonymous", username |-> "", password |-> ""]

UserPassword(username, password) ==
    [auth_type |-> "UserPassword", username |-> username,
     password |-> password]

\* the authentication arguments of the reads: those of OpcuaConfig rows
\* that share the endpoint
OpcuaAuths ==
    {Anonymous, UserPassword("alice", "pa"), UserPassword("bob", "pb")}

\* a client that connected without set_user and set_password
NoCreds == <<"", "">>

\* _get_client, lines 77-81: the user and password set on a new client
set_user(auth) ==
    IF /\ auth.auth_type \notin {"Anonymous", "anonymous", ""}
       /\ auth.username # ""
       /\ auth.password # ""
    THEN <<auth.username, auth.password>>
    ELSE NoCreds

IdleOpcuaReader ==
    [pc |-> "idle", endpoint |-> "opc1", node_id |-> "ns=2;i=1",
     auth |-> Anonymous, client |-> NoClient, node |-> NoClient]

\* OpcuaService.__init__, lines 38-40
NoOpcua ==
    [clients |-> [e \in Endpoints |-> NoClient],
     connected |-> [c \in Clients |-> FALSE],
     nclients |-> 0,
     creds |-> [c \in Clients |-> NoCreds],
     nodes |-> [k \in Endpoints \X NodeIds |-> NoClient],
     readers |-> [r \in Workers |-> IdleOpcuaReader]]

\* OpcuaService._get_client, under _client_lock: a pooled client is reused
\* as it is, whatever the authentication arguments; a new client gets the
\* user and password of the call.  connects tells whether client.connect()
\* returns; client is NoClient when ConnectionError is raised.
opcua_get_client(op, endpoint, auth, connects) ==
    IF op.clients[endpoint] # NoClient
    THEN [op |-> op, client |-> op.clients[endpoint]]
    ELSE IF connects
         THEN LET c == op.nclients + 1
              IN [op |-> [op EXCEPT !.nclients = c, !.clients[endpoint] = c,
                                    !.connected[c] = TRUE,
                                    !.creds[c] = set_user(auth)],
                  client |-> c]
         ELSE [op |-> op, client |-> NoClient]

\* OpcuaService._drop_client, under _client_lock: only when a client was
\* pooled are the cached nodes of the endpoint removed
opcua_drop_client(op, endpoint) ==
    IF op.clients[endpoint] = NoClient THEN op
    ELSE [op EXCEPT !.clients[endpoint] = NoClient,
                    !.connected[op.clients[endpoint]] = FALSE,
                    !.nodes = [k \in Endpoints \X NodeIds |->
                                 IF k[1] = endpoint THEN NoClient ELSE @[k]]]

\* read_value, line 217: _get_client, inside the try
OpcuaReadCallAs(r, endpoint, node_id, auth, connects) ==
    LET got == opcua_get_client(opcua, endpoint, auth, connects)
    IN /\ opcua.readers[r].pc = "idle"
       /\ got.op.nclients <= MaxClients
       /\ opcua' = [got.op EXCEPT !.readers[r] =
            [pc |-> IF got.client = NoClient THEN "except" ELSE "lookup",
             endpoint |-> endpoint, node_id |-> node_id, auth |-> auth,
             client |-> got.client, node |-> NoClient]]

\* read_value called with the default authentication arguments
OpcuaReadCall(r, endpoint, node_id, connects) ==
    OpcuaReadCallAs(r, endpoint, node_id, Anonymous, connects)

\* _get_node, lines 178-181: the cache lookup, under _client_lock
OpcuaNodeLookup(r) ==
    LET rd == opcua.readers[r]
        cached == opcua.nodes[<<rd.endpoint, rd.node_id>>]
    IN /\ rd.pc = "lookup"
       /\ opcua' = [opcua EXCEPT !.readers[r] =
            IF cached # NoClient THEN [rd EXCEPT !.pc = "io", !.node = cached]
            ELSE [rd EXCEPT !.pc = "resolve"]]

\* _get_node, lines 186-191: client.get_node(node_id) makes a handle of the
\* client the thread holds; the handle is cached under _client_lock
OpcuaNodeStore(r) ==
    LET rd == opcua.readers[r]
    IN /\ rd.pc = "resolve"
       /\ opcua' = [opcua EXCEPT
            !.nodes[<<rd.endpoint, rd.node_id>>] = rd.client,
            !.readers[r] = [rd EXCEPT !.pc = "io", !.node = rd.client]]

\* a handle of a client whose session is closed cannot be read
OpcuaIoOutcomes(op, r) ==
    IF op.connected[op.readers[r].node] THEN {"ok", "fail"} ELSE {"fail"}

\* lines 219-227: node.get_value() returns or raises
OpcuaReadIo(r, out) ==
    /\ opcua.readers[r].pc = "io"
    /\ out \in OpcuaIoOutcomes(opcua, r)
    /\ opcua' = [opcua EXCEPT
         !.readers[r].pc = IF out = "ok" THEN "returned" ELSE "except"]

\* lines 227-230: drop the client pooled for the endpoint, raise
OpcuaReadExcept(r) ==
    /\ opcua.readers[r].pc = "except"
    /\ opcua' = [opcua_drop_client(opcua, opcua.readers[r].endpoint)
                   EXCEPT !.readers[r].pc = "raised"]

\* the caller of read_value has its result
OpcuaReadEnd(r) ==
    /\ opcua.readers[r].pc \in {"returned", "raised"}
    /\ opcua' = [opcua EXCEPT !.readers[r] = IdleOpcuaReader]

\* OpcuaService.disconnect, called by DeviceViewSet.disconnect
OpcuaDisconnect(endpoint) ==
    opcua' = opcua_drop_client(opcua, endpoint)

(***************************************************************************)
(* StorageService (services/storage_service.py), a process-wide singleton. *)
(*   storage.engines    _engines: the engine pooled for a target, which is *)
(*                      the key provider:connection_string                 *)
(*   storage.nengines   engines created so far                             *)
(*   storage.status     Table.status of the table kept on a target         *)
(***************************************************************************)
Targets == {"db1", "db2"}
NoEngine == 0

\* StorageService.__init__, lines 46-47
NoStorage ==
    [engines |-> [k \in Targets |-> NoEngine], nengines |-> 0,
     status |-> [k \in Targets |-> "pending"]]

\* StorageService._get_engine, under _engine_lock
_get_engine(st, key) ==
    IF st.engines[key] # NoEngine THEN st
    ELSE [st EXCEPT !.nengines = @ + 1, !.engines[key] = st.nengines + 1]

\* StorageService._drop_engine, under _engine_lock: pop and dispose
_drop_engine(st, key) == [st EXCEPT !.engines[key] = NoEngine]

(***************************************************************************)
(* The statements of StorageService and the databases they run on.         *)
(*   db[key].provider   the provider of the target                         *)
(*   db[key].server     the server the database of the target is on        *)
(*   db[key].tables     the tables of the database, each [schema, name];   *)
(*                      the default schema is ""                           *)
(* Table names and SQL text are sequences of tokens, so that a prefix can  *)
(* be added, tested and removed: the logical name neuract__x is            *)
(* <<"neuract__", "x">>, the text neuract.lt_panel is                      *)
(* <<"neuract", ".", "lt_panel">>.                                         *)
(***************************************************************************)
Providers == {"postgres", "mssql", "mysql", "sqlite"}
NAMESPACE == "neuract"
Prefix == "neuract__"
Names == {<<"lt_panel">>, <<Prefix, "x">>}

\* no table exists in any database
NoTables ==
    [k \in Targets |-> [provider |-> "postgres", server |-> k, tables |-> {}]]

\* no call made yet
NoCall == [fn |-> "none"]

\* StorageService._get_table_name
_get_table_name(table_name, provider) ==
    IF provider \in {"postgres", "mssql"}
    THEN <<NAMESPACE, ".">> \o table_name
    ELSE <<Prefix>> \o table_name

\* the table a database addresses by the text of a statement: schema.name,
\* or name in the default schema
Resolve(text) ==
    IF Len(text) >= 2 /\ text[2] = "."
    THEN [schema |-> text[1], name |-> SubSeq(text, 3, Len(text))]
    ELSE [schema |-> "", name |-> text]

\* create_table, lines 213-218: the Table object handed to create_all
CreatedTable(table_name, provider) ==
    IF provider \in {"postgres", "mssql"}
    THEN [schema |-> NAMESPACE, name |-> table_name]
    ELSE [schema |-> "", name |-> <<Prefix>> \o table_name]

\* the tables the metadata queries of a target can see.  On postgres and
\* mssql information_schema lists the tables of the connected database, and
\* sqlite_master those of the file.  On mysql information_schema.tables
\* lists the tables of every database of the server: the tables of another
\* target on the same server appear under the schema of that target.
information_schema(dbs, key) ==
    IF dbs[key].provider = "mysql"
    THEN dbs[key].tables \cup
         {[schema |-> k, name |-> t.name] :
            <<k, t>> \in {<<k2, t2>> \in Targets \X
                             UNION {dbs[k3].tables : k3 \in Targets} :
                            /\ k2 # key
                            /\ dbs[k2].provider = "mysql"
                            /\ dbs[k2].server = dbs[key].server
                            /\ t2 \in dbs[k2].tables
                            /\ t2.schema = ""}}
    ELSE dbs[key].tables

\* the database of a target as its metadata queries see it
Catalog(dbs, key) ==
    [dbs[key] EXCEPT !.tables = information_schema(dbs, key)]

\* table_exists, lines 262-287: the tables the query counts.  The query of
\* mysql names no schema.
ExistsQuery(tables, table_name, provider) ==
    IF provider \in {"postgres", "mssql"}
    THEN {t \in tables : t.schema = NAMESPACE /\ t.name = table_name}
    ELSE IF provider = "mysql"
         THEN {t \in tables : t.name = <<Prefix>> \o table_name}
         ELSE {t \in tables : t.schema = "" /\ t.name = <<Prefix>> \o table_name}

\* the first tokens the pattern neuract__% matches: in LIKE an underscore
\* stands for any one character
Like == {Prefix, "neuractxy"}

\* discover_tables, lines 403-422: the tables the query selects
DiscoverQuery(tables, provider) ==
    IF provider \in {"postgres", "mssql"}
    THEN {t \in tables : t.schema = NAMESPACE}
    ELSE {t \in tables : t.name # <<>> /\ Head(t.name) \in Like}

\* discover_tables, lines 425-430: the namespace prefix is stripped
StripPrefix(name) ==
    IF name # <<>> /\ Head(name) = Prefix THEN Tail(name) ELSE name

\* discover_tables: the names returned, each with the table it is the name
\* of (a list in the order of the result; the order is left out)
discover_tables(tables, provider) ==
    {[of |-> t, name |-> StripPrefix(t.name)] :
        t \in DiscoverQuery(tables, provider)}

\* insert_row, lines 320-321, and insert_batch, lines 366-369: the
\* timestamp is added to a row that has none
HasTimestamp(row) == "timestamp_utc" \in DOMAIN row

\* an insert that stamps every row with the time of the insert
with_timestamp_always(row, now) ==
    [c \in DOMAIN row \cup {"timestamp_utc"} |->
        IF c = "timestamp_utc" THEN now ELSE row[c]]

with_timestamp(row, now) ==
    IF HasTimestamp(row) THEN row
    ELSE [c \in DOMAIN row \cup {"timestamp_utc"} |->
            IF c = "timestamp_utc" THEN now ELSE row[c]]

\* insert_batch, lines 363-367: one now for the rows of the batch
insert_batch_rows(rows, now) ==
    [i \in 1..Len(rows) |-> with_timestamp(rows[i], now)]

\* StorageService.test_connection: the only caller of _drop_engine.  ok
\* tells whether SELECT 1 ran.
test_connection(st, key, ok) ==
    [st |-> IF ok THEN _get_engine(st, key)
            ELSE _drop_engine(_get_engine(st, key), key),
     success |-> ok]

\* StorageService.create_table: the engine is obtained and the DDL runs (ok)
\* or fails; an exception is returned as (False, message) with the engine
\* left pooled.  d is the database of the target.
create_table(st, d, key, table_name, ok) ==
    [st |-> _get_engine(st, key),
     d |-> IF ok THEN [d EXCEPT !.tables =
                         @ \cup {CreatedTable(table_name, d.provider)}]
           ELSE d,
     success |-> ok]

\* StorageService.drop_table: DROP TABLE IF EXISTS
drop_table(st, d, key, table_name, ok) ==
    [st |-> _get_engine(st, key),
     d |-> IF ok THEN [d EXCEPT !.tables =
              @ \ {Resolve(_get_table_name(table_name, d.provider))}]
           ELSE d,
     success |-> ok]

\* StorageService.table_exists: an exception gives False
table_exists(st, d, key, table_name, ok) ==
    [st |-> _get_engine(st, key),
     result |-> ok /\ ExistsQuery(d.tables, table_name, d.provider) # {}]

\* StorageService.insert_row: the INSERT runs when the database answers
\* (ok) and has the table; an exception is returned as (False, message)
insert_row(st, d, key, table_name, data, now, ok) ==
    LET table == Resolve(_get_table_name(table_name, d.provider))
    IN [st |-> _get_engine(st, key), table |-> table,
        sent |-> <<with_timestamp(data, now)>>,
        success |-> ok /\ table \in d.tables]

\* StorageService.insert_batch: nothing is done for an empty batch;
\* otherwise the engine is obtained and the INSERT runs; an exception is
\* returned as (False, 0, message) with the engine left pooled
insert_batch(st, d, key, table_name, rows, now, ok) ==
    LET table == Resolve(_get_table_name(table_name, d.provider))
    IN IF rows = <<>>
       THEN [st |-> st, table |-> table, sent |-> <<>>, success |-> TRUE]
       ELSE [st |-> _get_engine(st, key), table |-> table,
             sent |-> insert_batch_rows(rows, now),
             success |-> ok /\ table \in d.tables]

\* the call as ret keeps it
InsertCall(fn, made, key, table_name, rows, now) ==
    [fn |-> fn, key |-> key, table_name |-> table_name, rows |-> rows,
     now |-> now, table |-> made.table, sent |-> made.sent,
     success |-> made.success]

\* StorageTargetViewSet.test (POST /storage/test/)
StorageTest(key, ok) ==
    /\ _get_engine(storage, key).nengines <= MaxEngines
    /\ storage' = test_connection(storage, key, ok).st

\* TableViewSet.migrate (POST /tables/{id}/migrate/) of the table
\* table_name kept on the target
migrate(key, table_name, ok) ==
    LET made == create_table(storage, db[key], key, table_name, ok)
    IN /\ made.st.nengines <= MaxEngines
       /\ storage' = [made.st EXCEPT !.status[key] =
                        IF made.success THEN "migrated" ELSE "error"]
       /\ db' = [db EXCEPT ![key] = made.d]

\* TableViewSet.discover (GET /tables/{id}/discover/): table_exists
DiscoverView(key, table_name, ok) ==
    LET found == table_exists(storage, Catalog(db, key), key, table_name, ok)
    IN /\ found.st.nengines <= MaxEngines
       /\ storage' = found.st
       /\ ret' = [fn |-> "table_exists", key |-> key,
                  table_name |-> table_name, result |-> found.result]

\* calls of the public functions no view makes
DropTable(key, table_name, ok) ==
    LET made == drop_table(storage, db[key], key, table_name, ok)
    IN /\ made.st.nengines <= MaxEngines
       /\ storage' = made.st
       /\ db' = [db EXCEPT ![key] = made.d]

DiscoverTables(key, ok) ==
    /\ _get_engine(storage, key).nengines <= MaxEngines
    /\ storage' = _get_engine(storage, key)
    /\ ret' = [fn |-> "discover_tables", key |-> key,
               result |-> IF ok
                          THEN discover_tables(information_schema(db, key),
                                               db[key].provider)
                          ELSE {}]

InsertRow(key, table_name, data, ok) ==
    LET made == insert_row(storage, db[key], key, table_name, data, clock, ok)
    IN /\ made.st.nengines <= MaxEngines
       /\ storage' = made.st
       /\ ret' = InsertCall("insert_row", made, key, table_name, <<data>>,
                            clock)

InsertBatch(key, table_name, rows, ok) ==
    LET made == insert_batch(storage, db[key], key, table_name, rows, clock,
                             ok)
    IN /\ made.st.nengines <= MaxEngines
       /\ storage' = made.st
       /\ ret' = InsertCall("insert_batch", made, key, table_name, rows,
                            clock)

(***************************************************************************)
(* The rows of the models behind the mapping, schema and storage-target    *)
(* views (models.py).  The device tables t1 and t2 use the same schema.    *)
(*   orm.fields          the key of every SchemaField row of the schema    *)
(*   orm.mappings        the field_key of every FieldMapping row of a      *)
(*                       device table                                      *)
(*   orm.mapping_health  DeviceTable.mapping_health                        *)
(*   orm.targets         the StorageTarget rows: whether the row exists    *)
(*                       and its is_default                                *)
(* (schema, key) and (device_table, field_key) are unique together, so the *)
(* keys of a schema and of a table are sets.                               *)
(***************************************************************************)
SchemaKeys == {"a", "b"}
\* FieldMappingSerializer takes any field_key: "x" is a key of no schema field
MappingKeys == SchemaKeys \cup {"x"}
TargetRows == 1..MaxTargets
\* the storage target that device tables log to (target.device_tables)
InUse == {1}

NoTarget == [present |-> FALSE, is_default |-> FALSE]

\* no schema field, no mapping, no storage target; mapping_health has its
\* default, MappingHealth.UNMAPPED (models.py line 291)
NoRows ==
    [fields |-> {},
     mappings |-> [t \in Tables |-> {}],
     mapping_health |-> [t \in Tables |-> "unmapped"],
     targets |-> [k \in TargetRows |-> NoTarget]]

\* the variables no view of this section writes
elsewhere ==
    <<job, runs, executor, workers, nthreads, call, resp, clock, env, modbus,
      opcua, storage, db>>

\* a health that takes an empty schema for covered
_update_mapping_health_covering(schema_fields, mapped_fields) ==
    IF schema_fields \subseteq mapped_fields THEN "mapped"
    ELSE IF mapped_fields # {} THEN "partial"
    ELSE "unmapped"

\* FieldMappingViewSet._update_mapping_health, lines 306-316: the health
\* computed from the schema keys and the mapped keys
_update_mapping_health(schema_fields, mapped_fields) ==
    IF schema_fields = {} THEN "unmapped"
    ELSE IF schema_fields \subseteq mapped_fields THEN "mapped"
    ELSE IF mapped_fields # {} THEN "partial"
    ELSE "unmapped"

\* lines 318-320: the health of table is stored; the call is recorded
UpdateMappingHealth(rows, table) ==
    LET health == _update_mapping_health(rows.fields, rows.mappings[table])
    IN /\ orm' = [rows EXCEPT !.mapping_health[table] = health]
       /\ ret' = [fn |-> "_update_mapping_health", table |-> table,
                  schema_fields |-> rows.fields,
                  mapped_fields |-> rows.mappings[table],
                  health |-> health]
       /\ UNCHANGED elsewhere

\* FieldMappingViewSet.perform_create (POST /tables/{id}/mappings/).  A key
\* the table has already raises IntegrityError at line 48: nothing changes.
MappingCreate(table, field_key) ==
    /\ field_key \notin orm.mappings[table]
    /\ UpdateMappingHealth([orm EXCEPT !.mappings[table] = @ \cup {field_key}],
                           table)

\* FieldMappingViewSet.perform_update: the mapping of field_key gets the key
\* new_key.  A key of another mapping of the table raises IntegrityError.
MappingUpdate(table, field_key, new_key) ==
    /\ field_key \in orm.mappings[table]
    /\ new_key \notin orm.mappings[table] \ {field_key}
    /\ UpdateMappingHealth(
           [orm EXCEPT !.mappings[table] = (@ \ {field_key}) \cup {new_key}],
           table)

\* FieldMappingViewSet.perform_destroy
MappingDestroy(table, field_key) ==
    /\ field_key \in orm.mappings[table]
    /\ UpdateMappingHealth([orm EXCEPT !.mappings[table] = @ \ {field_key}],
                           table)

\* FieldMappingViewSet.bulk: every valid entry updates the mapping of its
\* field_key or creates one
MappingBulk(table, field_keys) ==
    UpdateMappingHealth([orm EXCEPT !.mappings[table] = @ \cup field_keys],
                        table)

\* FieldMappingViewSet.import_mappings: the mappings are replaced by the
\* valid entries of the body (entries with different keys)
ImportMappings(table, field_keys) ==
    UpdateMappingHealth([orm EXCEPT !.mappings[table] = field_keys], table)

\* FieldMappingViewSet.copy_from: update_or_create for every mapping of the
\* source table
CopyFrom(table, source_table) ==
    UpdateMappingHealth(
        [orm EXCEPT !.mappings[table] = @ \cup orm.mappings[source_table]],
        table)

\* DeviceTableViewSet.mapping_health (GET /tables/{id}/mapping_health/)
MappingHealthView(table) ==
    LET schema_fields == orm.fields
        mapped_fields == orm.mappings[table]
        health == IF schema_fields = {} THEN "unmapped"
                  ELSE IF schema_fields \subseteq mapped_fields THEN "mapped"
                  ELSE IF mapped_fields # {} THEN "partial"
                  ELSE "unmapped"
    IN /\ orm' = [orm EXCEPT !.mapping_health[table] = health]
       /\ ret' = [fn |-> "mapping_health", table |-> table,
                  schema_fields |-> schema_fields,
                  mapped_fields |-> mapped_fields, health |-> health]
       /\ UNCHANGED elsewhere

\* SchemaViewSet.add_field (POST /schemas/{id}/fields/).  A key the schema
\* has already raises IntegrityError.
AddField(key) ==
    /\ key \notin orm.fields
    /\ orm' = [orm EXCEPT !.fields = @ \cup {key}]
    /\ UNCHANGED <<elsewhere, ret>>

\* SchemaViewSet.remove_field (DELETE /schemas/{id}/fields/{key}/)
RemoveField(key) ==
    /\ key \in orm.fields
    /\ orm' = [orm EXCEPT !.fields = @ \ {key}]
    /\ UNCHANGED <<elsewhere, ret>>

\* SchemaSerializer.update with fields in the body: the fields are deleted
\* and created again from the body
SchemaUpdate(keys) ==
    /\ orm' = [orm EXCEPT !.fields = keys]
    /\ UNCHANGED <<elsewhere, ret>>

\* StorageTarget.save, lines 150-154: a target saved with is_default takes
\* the flag from every other row
save(targets, k, is_default) ==
    [j \in TargetRows |->
        IF j = k THEN [present |-> TRUE, is_default |-> is_default]
        ELSE IF is_default THEN [targets[j] EXCEPT !.is_default = FALSE]
        ELSE targets[j]]

\* StorageTargetViewSet.perform_create (POST /storage/): serializer.save(),
\* then the save of the status by _test_and_update_target
TargetCreate(k, is_default) ==
    /\ ~orm.targets[k].present
    /\ orm' = [orm EXCEPT
         !.targets = save(save(orm.targets, k, is_default), k, is_default)]
    /\ ret' = [fn |-> "create", target |-> k, status |-> 201]
    /\ UNCHANGED elsewhere

\* PUT or PATCH /storage/{id}/ with is_default in the body, which the
\* serializer leaves writable
TargetUpdate(k, is_default) ==
    /\ orm.targets[k].present
    /\ orm' = [orm EXCEPT !.targets = save(orm.targets, k, is_default)]
    /\ ret' = [fn |-> "update", target |-> k, status |-> 200]
    /\ UNCHANGED elsewhere

\* StorageTargetViewSet.set_default (POST /storage/{id}/set_default/)
SetDefault(k) ==
    /\ orm.targets[k].present
    /\ orm' = [orm EXCEPT !.targets = save(orm.targets, k, TRUE)]
    /\ ret' = [fn |-> "set_default", target |-> k, status |-> 200]
    /\ UNCHANGED elsewhere

\* StorageTargetViewSet.destroy: refused for the default target and for a
\* target in use
TargetDestroy(k) ==
    /\ orm.targets[k].present
    /\ IF orm.targets[k].is_default \/ k \in InUse
       THEN /\ ret' = [fn |-> "destroy", target |-> k, status |-> 400]
            /\ UNCHANGED orm
       ELSE /\ ret' = [fn |-> "destroy", target |-> k, status |-> 204]
            /\ orm' = [orm EXCEPT !.targets[k] = NoTarget]
    /\ UNCHANGED elsewhere

InitServices ==
    /\ modbus = NoModbus
    /\ opcua = NoOpcua
    /\ orm = NoRows
    /\ storage = NoStorage
    /\ db = NoTables
    /\ ret = NoCall

(***************************************************************************)
(* Specification of the executor and the job views: requests arrive in any *)
(* order and interleave with the steps of the worker threads.  The job is  *)
(* a continuous job of one table.                                          *)
(***************************************************************************)
ContinuousJobs(table_lists) ==
    [enabled : BOOLEAN, status : {"stopped"}, job_type : {"continuous"},
     interval_ms : {1000}, table_ids : table_lists,
     triggers : {<<>>}, batch_size : {1, 2}]

InitExecutor ==
    /\ runs = <<>>
    /\ job_threads = NoThread
    /\ job_stops = NoThread
    /\ job_metrics = ZeroMetrics
    /\ job_last_values = NoLastValues
    /\ job_cooldowns = NoJobCooldowns
    /\ workers = [w \in Workers |-> NewThread]
    /\ nthreads = 0
    /\ call = IdleCall
    /\ resp = "none"
    /\ clock = 0

Init ==
    /\ job \in ContinuousJobs({<<"t1">>})
    /\ env = [threads |-> MaxWorkers, iters |-> MaxIters, faults |-> FALSE,
              history |-> FALSE, timed |-> FALSE, values |-> {Num(0)}]
    /\ InitExecutor
    /\ InitServices

WorkerStep(w) ==
    \/ WorkerInit(w)
    \/ LoopTest(w)
    \/ \E out \in ReadOutcomes(JobTypeOf(w)) : ReadReturn(w, out)
    \/ \E out \in WriteOutcomes : WriteReturn(w, out)
    \/ SleepTimeout(w)
    \/ SleepInterrupted(w)
    \/ \E out \in WriteOutcomes : FlushReturn(w, out)

Next ==
    \/ StartView
    \/ \E kind \in {"stop", "pause"} : StopBegin(kind)
    \/ StopAllBegin
    \/ StopJoined
    \/ StopTimedOut
    \/ \E w \in Workers : WorkerStep(w)

Spec == Init /\ [][Next]_vars

(***************************************************************************)
(* Specification of one run: a continuous job of one or two tables is      *)
(* started once, its callbacks may fail at every call, and stop, pause and *)
(* stop_all requests arrive in any order.                                  *)
(***************************************************************************)
RunInit ==
    /\ job \in ContinuousJobs({<<"t1">>, <<"t1", "t2">>})
    /\ env = [threads |-> 1, iters |-> MaxRunIters, faults |-> TRUE,
              history |-> TRUE, timed |-> FALSE, values |-> {Num(0)}]
    /\ InitExecutor
    /\ InitServices

RunSpec == RunInit /\ [][Next]_vars

(***************************************************************************)
(* The same run under fair scheduling: a thread that can take a step takes *)
(* one, and every callback invocation returns.  Nothing is assumed of the  *)
(* sleep timer: the sleep need not end unless the Event is set.            *)
(***************************************************************************)
FairInit ==
    /\ job \in ContinuousJobs({<<"t1">>, <<"t1", "t2">>})
    /\ env = [threads |-> 1, iters |-> MaxIters + 1, faults |-> TRUE,
              history |-> FALSE, timed |-> FALSE, values |-> {Num(0)}]
    /\ InitExecutor
    /\ InitServices

WorkerProgress(w) ==
    \/ WorkerInit(w)
    \/ LoopTest(w)
    \/ \E out \in ReadOutcomes(JobTypeOf(w)) : ReadReturn(w, out)
    \/ \E out \in WriteOutcomes : WriteReturn(w, out)
    \/ SleepInterrupted(w)
    \/ \E out \in WriteOutcomes : FlushReturn(w, out)

FairSpec ==
    FairInit /\ [][Next]_vars /\ \A w \in Workers : WF_vars(WorkerProgress(w))

(***************************************************************************)
(* Specification with edits of the job (PUT /jobs/{id}/) between and       *)
(* during its runs: the run in which the job is edited, and the next.      *)
(***************************************************************************)
Trig(field, operator, value, deadband, cooldown_ms) ==
    [field |-> field, operator |-> operator, value |-> value,
     deadband |-> deadband, cooldown_ms |-> cooldown_ms]

JobSettings ==
    {[job_type |-> "continuous", interval_ms |-> 1000, table_ids |-> <<"t1">>,
      triggers |-> <<>>, batch_size |-> 1],
     [job_type |-> "continuous", interval_ms |-> 0,
      table_ids |-> <<"t1", "t2">>, triggers |-> <<>>, batch_size |-> 2],
     [job_type |-> "trigger", interval_ms |-> 1000, table_ids |-> <<"t1">>,
      triggers |-> <<Trig("temp", ">", Num(1), 0, 0)>>, batch_size |-> 1]}

WithSettings(j, c) ==
    [j EXCEPT !.job_type = c.job_type, !.interval_ms = c.interval_ms,
              !.table_ids = c.table_ids, !.triggers = c.triggers,
              !.batch_size = c.batch_size]

\* JobSerializer.update: the fields, the table set and the triggers
EditJob ==
    /\ \E c \in JobSettings :
         /\ _build_job_config(job) # c
         /\ job' = WithSettings(job, c)
    /\ UNCHANGED <<runs, orm, executor, workers, nthreads, call, resp, clock,
                   env, services>>

EditInit ==
    /\ job \in {WithSettings([enabled |-> TRUE, status |-> "stopped",
                               job_type |-> "", interval_ms |-> 0,
                               table_ids |-> <<>>, triggers |-> <<>>,
                               batch_size |-> 0], c) : c \in JobSettings}
    /\ env = [threads |-> 2, iters |-> MaxRunIters, faults |-> FALSE,
              history |-> FALSE, timed |-> FALSE, values |-> {Num(0), Num(2)}]
    /\ InitExecutor
    /\ InitServices

\* every join completes: one worker of the job is alive at a time
EditNext ==
    \/ StartView
    \/ \E kind \in {"stop", "pause"} : StopBegin(kind)
    \/ StopJoined
    \/ \E w \in Workers : WorkerStep(w)
    \/ EditJob

EditSpec == EditInit /\ [][EditNext]_vars

(***************************************************************************)
(* Specification of the runs of a trigger job on one table: the clock      *)
(* advances between the steps of the worker, and every read returns some   *)
(* value of the field.                                                     *)
(***************************************************************************)
Cooldowns == {0, 2}

\* numbers below, at and above the threshold, strings, and the None that
\* the read callback stores for a field it failed to read
FieldValues == {Num(0), Num(1), Num(2), Str(0), Str(1), NoneV}

SingleTriggers ==
    {Trig("temp", "change", NoneV, d, c) : d \in {0, 1}, c \in Cooldowns}
    \cup {Trig("temp", op, v, 0, c) :
             op \in Operators \ {"change"}, v \in {NoneV, Num(1)},
             c \in Cooldowns}
    \cup {Trig("pressure", ">", Num(1), 0, 0)}

TriggerLists ==
    {<<tr>> : tr \in SingleTriggers}
    \cup {<<a, b>> : a \in {Trig("temp", "!=", Num(1), 0, 0),
                             Trig("temp", "change", NoneV, 0, 0)},
                     b \in {Trig("temp", ">", Num(1), 0, 0),
                             Trig("temp", "change", NoneV, 0, 2)}}

TrigInit ==
    /\ job \in [enabled : {TRUE}, status : {"stopped"}, job_type : {"trigger"},
                 interval_ms : {1000}, table_ids : {<<"t1">>},
                 triggers : TriggerLists, batch_size : {1}]
    /\ env = [threads |-> 1, iters |-> MaxRunIters + 1, faults |-> FALSE,
              history |-> TRUE, timed |-> FALSE, values |-> FieldValues]
    /\ InitExecutor
    /\ InitServices

\* datetime.utcnow() moves on
Tick ==
    /\ clock < MaxClock
    /\ clock' = clock + 1
    /\ UNCHANGED <<catalog, executor, workers, nthreads, call, resp, env,
                   services>>

TrigNext ==
    \/ StartView
    \/ Tick
    \/ \E w \in Workers :
         \/ WorkerInit(w)
         \/ LoopTest(w)
         \/ \E out \in ReadOutcomes(JobTypeOf(w)) : ReadReturn(w, out)
         \/ \E out \in WriteOutcomes : WriteReturn(w, out)
         \/ SleepTimeout(w)

TrigSpec == TrigInit /\ [][TrigNext]_vars

(***************************************************************************)
(* Specification of one run of a trigger job with a cooldown that ends by  *)
(* a stop request, while the clock advances: the join of stop_job may time *)
(* out.  Rows are written in batches of two.                               *)
(***************************************************************************)
CooldownInit ==
    /\ job \in [enabled : {TRUE}, status : {"stopped"}, job_type : {"trigger"},
                 interval_ms : {1000}, table_ids : {<<"t1">>},
                 triggers : {<<tr>> : tr \in {x \in SingleTriggers :
                                                x.cooldown_ms > 0}},
                 batch_size : {2}]
    /\ env = [threads |-> 1, iters |-> MaxRunIters, faults |-> FALSE,
              history |-> FALSE, timed |-> FALSE, values |-> FieldValues]
    /\ InitExecutor
    /\ InitServices

CooldownNext ==
    \/ StartView
    \/ Tick
    \/ StopBegin("stop")
    \/ StopJoined
    \/ StopTimedOut
    \/ \E w \in Workers : WorkerStep(w)

CooldownSpec == CooldownInit /\ [][CooldownNext]_vars

(***************************************************************************)
(* Specification of the Modbus pool alone: threads (workers of jobs,       *)
(* request handlers) read registers of the devices in any interleaving,    *)
(* and devices are disconnected (POST /devices/{id}/disconnect/).          *)
(***************************************************************************)
IdleJob ==
    [enabled |-> FALSE, status |-> "stopped", job_type |-> "continuous",
     interval_ms |-> 1000, table_ids |-> <<"t1">>, triggers |-> <<>>,
     batch_size |-> 1]

ServiceInit ==
    /\ job = IdleJob
    /\ env = [threads |-> 0, iters |-> 0, faults |-> FALSE, history |-> FALSE,
              timed |-> FALSE, values |-> {Num(0)}]
    /\ InitExecutor
    /\ InitServices

ModbusNext ==
    \/ \E r \in Workers, key \in Devices, connects \in BOOLEAN :
         ReadRegistersCall(r, key, connects) /\ UNCHANGED <<core, opcua, storage>>
    \/ \E r \in Workers, out \in {"ok", "socket", "protocol"} :
         ReadRegistersIo(r, out) /\ UNCHANGED <<core, opcua, storage>>
    \/ \E r \in Workers :
         ReadRegistersExcept(r) /\ UNCHANGED <<core, opcua, storage>>
    \/ \E r \in Workers :
         ReadRegistersEnd(r) /\ UNCHANGED <<core, opcua, storage>>
    \/ \E key \in Devices :
         ModbusDisconnect(key) /\ UNCHANGED <<core, opcua, storage>>

ModbusSpec == ServiceInit /\ [][ModbusNext]_vars

(***************************************************************************)
(* Specification of the OPC UA pool alone: threads read nodes of the       *)
(* endpoint in any interleaving, and the device is disconnected.           *)
(***************************************************************************)
OpcuaNext ==
    \/ \E r \in Workers, e \in Endpoints, n \in NodeIds, connects \in BOOLEAN :
         OpcuaReadCall(r, e, n, connects) /\ UNCHANGED <<core, modbus, storage>>
    \/ \E r \in Workers :
         OpcuaNodeLookup(r) /\ UNCHANGED <<core, modbus, storage>>
    \/ \E r \in Workers :
         OpcuaNodeStore(r) /\ UNCHANGED <<core, modbus, storage>>
    \/ \E r \in Workers, out \in {"ok", "fail"} :
         OpcuaReadIo(r, out) /\ UNCHANGED <<core, modbus, storage>>
    \/ \E r \in Workers :
         OpcuaReadExcept(r) /\ UNCHANGED <<core, modbus, storage>>
    \/ \E r \in Workers :
         OpcuaReadEnd(r) /\ UNCHANGED <<core, modbus, storage>>
    \/ \E e \in Endpoints :
         OpcuaDisconnect(e) /\ UNCHANGED <<core, modbus, storage>>

OpcuaSpec == ServiceInit /\ [][OpcuaNext]_vars

(***************************************************************************)
(* Specification of the OPC UA pool read by devices whose OpcuaConfig rows *)
(* name the same endpoint with different authentication: every read        *)
(* carries the auth_type, username and password of its device.  The        *)
(* devices read the same node.                                             *)
(***************************************************************************)
AuthNext ==
    \/ \E r \in Workers, e \in Endpoints, auth \in OpcuaAuths,
          connects \in BOOLEAN :
         OpcuaReadCallAs(r, e, "ns=2;i=1", auth, connects)
           /\ UNCHANGED <<core, modbus, storage>>
    \/ \E r \in Workers :
         OpcuaNodeLookup(r) /\ UNCHANGED <<core, modbus, storage>>
    \/ \E r \in Workers :
         OpcuaNodeStore(r) /\ UNCHANGED <<core, modbus, storage>>
    \/ \E r \in Workers, out \in {"ok", "fail"} :
         OpcuaReadIo(r, out) /\ UNCHANGED <<core, modbus, storage>>
    \/ \E r \in Workers :
         OpcuaReadExcept(r) /\ UNCHANGED <<core, modbus, storage>>
    \/ \E r \in Workers :
         OpcuaReadEnd(r) /\ UNCHANGED <<core, modbus, storage>>
    \/ \E e \in Endpoints :
         OpcuaDisconnect(e) /\ UNCHANGED <<core, modbus, storage>>

AuthSpec == ServiceInit /\ [][AuthNext]_vars

(***************************************************************************)
(* Specification of one run of a continuous job through the callbacks the  *)
(* job views build (views/jobs.py): table t1 is bound to the Modbus device *)
(* plc1 with one mapping, temp, and to the storage target db1.  Storage    *)
(* targets are tested and tables migrated while the job runs.              *)
(***************************************************************************)
DeviceOf(table_id) == "plc1"
TargetOf(table_id) == "db1"

\* the table the worker is reading or writing
TableOf(w) == TableIdsOf(w)[workers[w].idx]

\* read_callback, lines 279-288: _read_mapping_value calls read_value, which
\* calls read_registers
JobReadCall(w, connects) ==
    /\ workers[w].pc = "reading"
    /\ ReadRegistersCall(w, DeviceOf(TableOf(w)), connects)
    /\ UNCHANGED <<core, opcua, storage>>

JobReadIo(w, out) ==
    /\ ReadRegistersIo(w, out)
    /\ UNCHANGED <<core, opcua, storage>>

JobReadExcept(w) ==
    /\ ReadRegistersExcept(w)
    /\ UNCHANGED <<core, opcua, storage>>

\* read_callback, lines 284-292: the value read is stored under field_key,
\* or None when _read_mapping_value raised; the dict is returned
read_callback(rd) ==
    [kind |-> "values",
     values |-> [f \in Fields |-> IF rd.pc = "returned" THEN Num(0)
                                  ELSE NoneV]]

JobReadReturn(w) ==
    /\ ReadRegistersEnd(w)
    /\ ReadReturns(w, read_callback(modbus.readers[w]))
    /\ UNCHANGED <<opcua, storage, db, ret>>

\* write_callback, lines 303-317: the success of insert_batch is returned
write_callback(made) == IF made.success THEN "ok" ELSE "fail"

\* Table.name of the tables of the job
NameOf(table_id) == <<"lt_panel">>

JobInsert(w, ok) ==
    insert_batch(storage, db[TargetOf(TableOf(w))], TargetOf(TableOf(w)),
                 NameOf(TableOf(w)), workers[w].buf[TableOf(w)], clock, ok)

JobWrite(w, ok) ==
    LET made == JobInsert(w, ok)
    IN /\ workers[w].pc = "writing"
       /\ made.st.nengines <= MaxEngines
       /\ storage' = made.st
       /\ ret' = InsertCall("insert_batch", made, TargetOf(TableOf(w)),
                            NameOf(TableOf(w)), workers[w].buf[TableOf(w)],
                            clock)
       /\ WriteReturns(w, write_callback(made))
       /\ UNCHANGED <<modbus, opcua, db>>

JobFlush(w, ok) ==
    LET made == JobInsert(w, ok)
    IN /\ workers[w].pc = "flushing"
       /\ made.st.nengines <= MaxEngines
       /\ storage' = made.st
       /\ ret' = InsertCall("insert_batch", made, TargetOf(TableOf(w)),
                            NameOf(TableOf(w)), workers[w].buf[TableOf(w)],
                            clock)
       /\ FlushReturns(w, write_callback(made))
       /\ UNCHANGED <<modbus, opcua, db>>

DeviceInit ==
    /\ job \in [enabled : {TRUE}, status : {"stopped"},
                 job_type : {"continuous"}, interval_ms : {1000},
                 table_ids : {<<"t1">>}, triggers : {<<>>},
                 batch_size : {1, 2}]
    /\ env = [threads |-> 1, iters |-> MaxRunIters, faults |-> FALSE,
              history |-> TRUE, timed |-> FALSE, values |-> {Num(0)}]
    /\ InitExecutor
    /\ InitServices

DeviceNext ==
    \/ StartView
    \/ StopBegin("stop")
    \/ StopJoined
    \/ \E w \in Workers :
         \/ WorkerInit(w)
         \/ LoopTest(w)
         \/ SleepTimeout(w)
         \/ SleepInterrupted(w)
         \/ \E connects \in BOOLEAN : JobReadCall(w, connects)
         \/ \E out \in {"ok", "socket", "protocol"} : JobReadIo(w, out)
         \/ JobReadExcept(w)
         \/ JobReadReturn(w)
         \/ \E ok \in BOOLEAN : JobWrite(w, ok)
         \/ \E ok \in BOOLEAN : JobFlush(w, ok)
    \/ \E key \in Targets, ok \in BOOLEAN :
         /\ StorageTest(key, ok)
         /\ UNCHANGED <<core, modbus, opcua>>
    \/ \E key \in Targets, ok \in BOOLEAN :
         /\ migrate(key, <<"lt_panel">>, ok)
         /\ UNCHANGED <<catalog, executor, workers, nthreads, call, resp,
                        clock, env, ret, modbus, opcua>>

DeviceSpec == DeviceInit /\ [][DeviceNext]_vars

(***************************************************************************)
(* Specification of the inserts: one run of a continuous job whose write   *)
(* callback inserts into the table lt_panel of target db1, together with   *)
(* direct calls of insert_row and insert_batch on that table, with rows    *)
(* that have a timestamp_utc and rows that have none, while the clock      *)
(* advances and the table is migrated.                                     *)
(***************************************************************************)
DirectRows ==
    {[temp |-> Num(0)], [temp |-> Num(0), timestamp_utc |-> 0]}

DirectBatches ==
    {<<>>} \cup {<<r>> : r \in DirectRows}
           \cup {<<r1, r2>> : r1 \in DirectRows, r2 \in DirectRows}

InsertInit ==
    /\ job \in [enabled : {TRUE}, status : {"stopped"},
                 job_type : {"continuous"}, interval_ms : {1000},
                 table_ids : {<<"t1">>}, triggers : {<<>>},
                 batch_size : {1, 2}]
    /\ env = [threads |-> 1, iters |-> MaxIters, faults |-> FALSE,
              history |-> FALSE, timed |-> FALSE, values |-> {Num(0)}]
    /\ InitExecutor
    /\ InitServices

InsertNext ==
    \/ StartView
    \/ Tick
    \/ StopBegin("stop")
    \/ StopJoined
    \/ \E w \in Workers :
         \/ WorkerInit(w)
         \/ LoopTest(w)
         \/ \E out \in ReadOutcomes(JobTypeOf(w)) : ReadReturn(w, out)
         \/ SleepTimeout(w)
         \/ SleepInterrupted(w)
         \/ \E ok \in BOOLEAN : JobWrite(w, ok)
         \/ \E ok \in BOOLEAN : JobFlush(w, ok)
    \/ \E ok \in BOOLEAN :
         /\ migrate("db1", <<"lt_panel">>, ok)
         /\ UNCHANGED <<catalog, executor, workers, nthreads, call, resp,
                        clock, env, ret, modbus, opcua>>
    \/ \E data \in DirectRows, ok \in BOOLEAN :
         /\ InsertRow("db1", <<"lt_panel">>, data, ok)
         /\ UNCHANGED <<catalog, executor, workers, nthreads, call, resp,
                        clock, env, db, modbus, opcua>>
    \/ \E rows \in DirectBatches, ok \in BOOLEAN :
         /\ InsertBatch("db1", <<"lt_panel">>, rows, ok)
         /\ UNCHANGED <<catalog, executor, workers, nthreads, call, resp,
                        clock, env, db, modbus, opcua>>

InsertSpec == InsertInit /\ [][InsertNext]_vars

(***************************************************************************)
(* Specification of the pacing of the loop: one run of a continuous job    *)
(* with an interval of one or two seconds, in which time is followed.      *)
(* time.perf_counter() is the clock.  Time passes while a callback runs    *)
(* and while the worker sleeps; the statements of the loop take no time.   *)
(***************************************************************************)
\* a second passes while read_callback or write_callback runs
Elapse(w) ==
    /\ workers[w].pc \in {"reading", "writing", "flushing"}
    /\ clock < MaxClock
    /\ clock' = clock + 1
    /\ UNCHANGED <<catalog, executor, workers, nthreads, call, resp, env,
                   services>>

PaceInit ==
    /\ job \in [enabled : {TRUE}, status : {"stopped"},
                 job_type : {"continuous"}, interval_ms : {1000, 2000},
                 table_ids : {<<"t1">>}, triggers : {<<>>},
                 batch_size : {1, 2}]
    /\ env = [threads |-> 1, iters |-> MaxRunIters + 1, faults |-> TRUE,
              history |-> FALSE, timed |-> TRUE, values |-> {Num(0)}]
    /\ InitExecutor
    /\ InitServices

PaceNext ==
    \/ StartView
    \/ \E kind \in {"stop", "pause"} : StopBegin(kind)
    \/ StopJoined
    \/ StopTimedOut
    \/ \E w \in Workers : WorkerStep(w)
    \/ \E w \in Workers : Elapse(w)

PaceSpec == PaceInit /\ [][PaceNext]_vars

(***************************************************************************)
(* Specification of the metrics of a job: the worker of the job records    *)
(* reads, writes and errors on the JobMetrics object, and the metrics      *)
(* endpoint (JobViewSet.metrics, JobExecutor.get_metrics) reads a summary  *)
(* at any moment.  Neither side takes a lock, so a summary can be read     *)
(* between two statements of record_write.                                 *)
(*                                                                         *)
(* The object is followed in full.  ret keeps what was recorded:           *)
(*   ret.rounds      the number k of rounds the behaviour begins after     *)
(*   ret.serial      the number of calls made; the n-th call records the   *)
(*                   latency (the timestamp) n                             *)
(*   ret.read_log,   the latencies of all successful reads and writes and  *)
(*   ret.write_log,  all error entries, in recording order                 *)
(*   ret.error_log                                                         *)
(*   ret.pending     the record_write in progress, ret.before the metrics  *)
(*                   when it began                                         *)
(*   ret.summary     the summary read last                                 *)
(* A behaviour begins after k rounds of a successful read, a successful    *)
(* write of one row and an error, for k such that the windows and the      *)
(* error list are empty, nearly full or beyond their capacity.             *)
(***************************************************************************)
NoPending == [op |-> "none"]
NoSummary == [reads |-> -1]

Recording ==
    [fn |-> "JobMetrics", rounds |-> 0, serial |-> 0,
     read_log |-> <<>>, write_log |-> <<>>,
     error_log |-> <<>>, pending |-> NoPending, before |-> FullMetrics,
     summary |-> NoSummary]

ErrorEntry(n) == [code |-> "LOOP_ERROR", message |-> "read", timestamp |-> n]

\* the metrics and the record after round i
Round(mr, i) ==
    [m |-> record_error_entry(
             record_write_sample(
               record_read_sample(mr.m, i, TRUE), i, 1, TRUE),
             "LOOP_ERROR", "read", i),
     r |-> [mr.r EXCEPT !.serial = i, !.rounds = i,
                        !.read_log = Append(@, i),
                        !.write_log = Append(@, i),
                        !.error_log = Append(@, ErrorEntry(i))]]

\* the metrics and the record after the rounds i..k: the first half of the
\* rounds, which ends with call mid, and then the second
RECURSIVE Rounds(_, _, _)
Rounds(mr, i, k) ==
    IF i > k THEN mr
    ELSE IF i = k THEN Round(mr, i)
    ELSE LET mid == (i + k) \div 2
             half == Rounds(mr, i, mid)
         IN IF half.r.serial = mid THEN Rounds(half, mid + 1, k) ELSE half

Prefills == {0, errors_kept - 1, maxlen - 1}

MetricsInit ==
    /\ job = IdleJob
    /\ env = [threads |-> 0, iters |-> 0, faults |-> FALSE, history |-> FALSE,
              timed |-> FALSE, values |-> {Num(0)}]
    /\ runs = <<>>
    /\ job_threads = NoThread
    /\ job_stops = NoThread
    /\ job_last_values = NoLastValues
    /\ job_cooldowns = NoJobCooldowns
    /\ workers = [w \in Workers |-> NewThread]
    /\ nthreads = 0
    /\ call = IdleCall
    /\ resp = "none"
    /\ clock = 0
    /\ modbus = NoModbus
    /\ opcua = NoOpcua
    /\ orm = NoRows
    /\ storage = NoStorage
    /\ db = NoTables
    /\ \E k \in Prefills :
         LET mr == Rounds([m |-> FullMetrics, r |-> Recording], 1, k)
         IN /\ job_metrics = mr.m
            /\ ret = [mr.r EXCEPT !.before = mr.m]

RecordRead(success) ==
    LET n == ret.serial + 1
    IN /\ ret.pending = NoPending
       /\ job_metrics' = record_read_sample(job_metrics, n, success)
       /\ ret' = [ret EXCEPT !.serial = n,
                             !.read_log = IF success THEN Append(@, n) ELSE @,
                             !.before = job_metrics']

\* record_write up to line 47
RecordWriteBegin(rows, success) ==
    LET n == ret.serial + 1
    IN /\ ret.pending = NoPending
       /\ job_metrics' = record_write_begin(job_metrics)
       /\ ret' = [ret EXCEPT !.serial = n,
                             !.pending = [op |-> "record_write",
                                          latency_ms |-> n, rows |-> rows,
                                          success |-> success]]

\* record_write from line 48 on
RecordWriteEnd ==
    /\ ret.pending # NoPending
    /\ job_metrics' = record_write_end(job_metrics, ret.pending.latency_ms,
                                       ret.pending.rows, ret.pending.success)
    /\ ret' = [ret EXCEPT !.pending = NoPending,
                          !.write_log = IF ret.pending.success
                                        THEN Append(@, ret.pending.latency_ms)
                                        ELSE @,
                          !.before = job_metrics']

RecordError ==
    LET n == ret.serial + 1
    IN /\ ret.pending = NoPending
       /\ job_metrics' = record_error_entry(job_metrics, "LOOP_ERROR", "read",
                                            n)
       /\ ret' = [ret EXCEPT !.serial = n,
                             !.error_log = Append(@, ErrorEntry(n)),
                             !.before = job_metrics']

\* JobExecutor.get_metrics (GET /jobs/{id}/metrics/)
GetMetrics ==
    /\ ret' = [ret EXCEPT !.summary = get_summary(job_metrics)]
    /\ UNCHANGED job_metrics

\* the calls made after the rounds are at most MaxCalls
CallsLeft == ret.serial < ret.rounds + MaxCalls

MetricsNext ==
    \/ \E success \in BOOLEAN :
         /\ CallsLeft
         /\ RecordRead(success)
         /\ UNCHANGED <<catalog, job_threads, job_stops, job_last_values,
                        job_cooldowns, workers, nthreads, call, resp, clock,
                        env, modbus, opcua, storage, db>>
    \/ \E rows \in {1, 2}, success \in BOOLEAN :
         /\ CallsLeft
         /\ RecordWriteBegin(rows, success)
         /\ UNCHANGED <<catalog, job_threads, job_stops, job_last_values,
                        job_cooldowns, workers, nthreads, call, resp, clock,
                        env, modbus, opcua, storage, db>>
    \/ /\ RecordWriteEnd
       /\ UNCHANGED <<catalog, job_threads, job_stops, job_last_values,
                      job_cooldowns, workers, nthreads, call, resp, clock,
                      env, modbus, opcua, storage, db>>
    \/ /\ CallsLeft
       /\ RecordError
       /\ UNCHANGED <<catalog, job_threads, job_stops, job_last_values,
                      job_cooldowns, workers, nthreads, call, resp, clock,
                      env, modbus, opcua, storage, db>>
    \/ /\ GetMetrics
       /\ UNCHANGED <<catalog, job_threads, job_stops, job_last_values,
                      job_cooldowns, workers, nthreads, call, resp, clock,
                      env, modbus, opcua, storage, db>>

MetricsSpec == MetricsInit /\ [][MetricsNext]_vars

(***************************************************************************)
(* The address and register conversions of ModbusService.  Addresses are   *)
(* Python integers, which have no width.  Registers are 16-bit values and  *)
(* bytes are numbers 0..255.                                               *)
(***************************************************************************)
\* an address parser that takes 10000 for a coil
_parse_address_wide_coils(address) ==
    IF 40001 <= address /\ address <= 49999
    THEN [register_type |-> "holding", address |-> address - 40001]
    ELSE IF 30001 <= address /\ address <= 39999
    THEN [register_type |-> "input", address |-> address - 30001]
    ELSE IF 10001 <= address /\ address <= 19999
    THEN [register_type |-> "discrete", address |-> address - 10001]
    ELSE IF 0 <= address /\ address <= 10000
    THEN [register_type |-> "coil", address |-> address]
    ELSE [register_type |-> "holding", address |-> address]

\* ModbusService._parse_address
_parse_address(address) ==
    IF 40001 <= address /\ address <= 49999
    THEN [register_type |-> "holding", address |-> address - 40001]
    ELSE IF 30001 <= address /\ address <= 39999
    THEN [register_type |-> "input", address |-> address - 30001]
    ELSE IF 10001 <= address /\ address <= 19999
    THEN [register_type |-> "discrete", address |-> address - 10001]
    ELSE IF 0 <= address /\ address <= 9999
    THEN [register_type |-> "coil", address |-> address]
    ELSE [register_type |-> "holding", address |-> address]

\* struct.pack('>HH', a, b) and struct.pack('<HH', a, b)
pack_big(a, b) == <<a \div 256, a % 256, b \div 256, b % 256>>
pack_little(a, b) == <<a % 256, a \div 256, b % 256, b \div 256>>

\* a decoder with the orders BADC and CDAB exchanged
_registers_to_float_exchanged(registers, byte_order) ==
    IF Len(registers) < 2 THEN [raised |-> "ValueError"]
    ELSE LET reg1 == registers[1]
             reg2 == registers[2]
         IN [bytes_data |->
               IF byte_order = "ABCD" THEN pack_big(reg1, reg2)
               ELSE IF byte_order = "DCBA" THEN pack_little(reg2, reg1)
               ELSE IF byte_order = "CDAB" THEN pack_big(reg2, reg1)
               ELSE IF byte_order = "BADC" THEN pack_little(reg1, reg2)
               ELSE pack_big(reg1, reg2)]

\* ModbusService._registers_to_float up to the bytes handed to
\* struct.unpack('>f', bytes_data), which reads them as a big-endian
\* IEEE-754 single
_registers_to_float(registers, byte_order) ==
    IF Len(registers) < 2 THEN [raised |-> "ValueError"]
    ELSE LET reg1 == registers[1]
             reg2 == registers[2]
         IN [bytes_data |->
               IF byte_order = "ABCD" THEN pack_big(reg1, reg2)
               ELSE IF byte_order = "DCBA" THEN pack_little(reg2, reg1)
               ELSE IF byte_order = "BADC" THEN pack_big(reg2, reg1)
               ELSE IF byte_order = "CDAB" THEN pack_little(reg1, reg2)
               ELSE pack_big(reg1, reg2)]

\* the addresses parsed: those around the ends of the ranges
RangeEnds == {0, 9999, 10001, 19999, 30001, 39999, 40001, 49999, 65535}
Addresses == UNION {(e - MaxSpan)..(e + MaxSpan) : e \in RangeEnds}

\* the registers decoded: 230.5 is 0x43668000
Registers == {0, 1, 255, 256, 4660, 17254, 32768, 65535}
RegisterLists ==
    {<<r>> : r \in Registers} \cup
    {<<r1, r2>> : r1 \in Registers, r2 \in Registers}
ByteOrders == {"ABCD", "DCBA", "BADC", "CDAB", "other"}

ParseAddress(address) ==
    ret' = [fn |-> "_parse_address", address |-> address,
            result |-> _parse_address(address)]

RegistersToFloat(registers, byte_order) ==
    ret' = [fn |-> "_registers_to_float", registers |-> registers,
            byte_order |-> byte_order,
            result |-> _registers_to_float(registers, byte_order)]

(***************************************************************************)
(* Specification of the conversions: each is applied to any of its inputs. *)
(***************************************************************************)
ConvertNext ==
    \/ \E address \in Addresses :
         /\ ParseAddress(address)
         /\ UNCHANGED <<catalog, executor, workers, nthreads, call, resp,
                        clock, env, db, modbus, opcua, storage>>
    \/ \E registers \in RegisterLists, byte_order \in ByteOrders :
         /\ RegistersToFloat(registers, byte_order)
         /\ UNCHANGED <<catalog, executor, workers, nthreads, call, resp,
                        clock, env, db, modbus, opcua, storage>>

ConvertSpec == ServiceInit /\ [][ConvertNext]_vars

(***************************************************************************)
(* Specification of the storage service: tables are created, dropped,      *)
(* looked up, listed and inserted into on two targets of any provider,     *)
(* which are databases of one server or of two.  No job runs.              *)
(***************************************************************************)
StorageInit ==
    /\ job = IdleJob
    /\ env = [threads |-> 0, iters |-> 0, faults |-> FALSE, history |-> FALSE,
              timed |-> FALSE, values |-> {Num(0)}]
    /\ InitExecutor
    /\ modbus = NoModbus
    /\ opcua = NoOpcua
    /\ orm = NoRows
    /\ storage = NoStorage
    /\ db \in [Targets -> [provider : Providers, server : {"s1", "s2"},
                           tables : {{}}]]
    /\ db["db1"].server = "s1"
    /\ ret = NoCall

StorageNext ==
    \/ \E key \in Targets, table_name \in Names, ok \in BOOLEAN :
         /\ migrate(key, table_name, ok)
         /\ UNCHANGED <<catalog, executor, workers, nthreads, call, resp,
                        clock, env, ret, modbus, opcua>>
    \/ \E key \in Targets, table_name \in Names, ok \in BOOLEAN :
         /\ DropTable(key, table_name, ok)
         /\ UNCHANGED <<catalog, executor, workers, nthreads, call, resp,
                        clock, env, ret, modbus, opcua>>
    \/ \E key \in Targets, table_name \in Names, ok \in BOOLEAN :
         /\ DiscoverView(key, table_name, ok)
         /\ UNCHANGED <<catalog, executor, workers, nthreads, call, resp,
                        clock, env, db, modbus, opcua>>
    \/ \E key \in Targets, ok \in BOOLEAN :
         /\ DiscoverTables(key, ok)
         /\ UNCHANGED <<catalog, executor, workers, nthreads, call, resp,
                        clock, env, db, modbus, opcua>>
    \/ \E key \in Targets, table_name \in Names, ok \in BOOLEAN :
         /\ InsertRow(key, table_name, [temp |-> Num(0)], ok)
         /\ UNCHANGED <<catalog, executor, workers, nthreads, call, resp,
                        clock, env, db, modbus, opcua>>
    \/ \E key \in Targets, table_name \in Names, ok \in BOOLEAN :
         /\ InsertBatch(key, table_name, <<[temp |-> Num(0)]>>, ok)
         /\ UNCHANGED <<catalog, executor, workers, nthreads, call, resp,
                        clock, env, db, modbus, opcua>>

StorageSpec == StorageInit /\ [][StorageNext]_vars

(***************************************************************************)
(* Specification of the mapping and schema views: the schema was created   *)
(* with any of its fields (SchemaSerializer.create), the two device tables *)
(* have no mapping yet, and mapping and schema requests arrive one after   *)
(* the other in any order.                                                 *)
(***************************************************************************)
RowsInit ==
    /\ job = IdleJob
    /\ env = [threads |-> 0, iters |-> 0, faults |-> FALSE, history |-> FALSE,
              timed |-> FALSE, values |-> {Num(0)}]
    /\ InitExecutor
    /\ modbus = NoModbus
    /\ opcua = NoOpcua
    /\ storage = NoStorage
    /\ db = NoTables
    /\ ret = NoCall

HealthInit ==
    /\ RowsInit
    /\ \E keys \in SUBSET SchemaKeys : orm = [NoRows EXCEPT !.fields = keys]

HealthNext ==
    \/ \E t \in Tables, k \in MappingKeys : MappingCreate(t, k)
    \/ \E t \in Tables, k \in MappingKeys, new_key \in MappingKeys :
         MappingUpdate(t, k, new_key)
    \/ \E t \in Tables, k \in MappingKeys : MappingDestroy(t, k)
    \/ \E t \in Tables, ks \in SUBSET MappingKeys : MappingBulk(t, ks)
    \/ \E t \in Tables, ks \in SUBSET MappingKeys : ImportMappings(t, ks)
    \/ \E t \in Tables, source \in Tables : CopyFrom(t, source)
    \/ \E t \in Tables : MappingHealthView(t)
    \/ \E k \in SchemaKeys : AddField(k)
    \/ \E k \in SchemaKeys : RemoveField(k)
    \/ \E ks \in SUBSET SchemaKeys : SchemaUpdate(ks)

HealthSpec == HealthInit /\ [][HealthNext]_vars

(***************************************************************************)
(* Specification of the storage-target views: no target exists at first,   *)
(* and create, update, set_default and delete requests arrive one after    *)
(* the other in any order.                                                 *)
(***************************************************************************)
TargetInit ==
    /\ RowsInit
    /\ orm = NoRows

TargetNext ==
    \/ \E k \in TargetRows, is_default \in BOOLEAN : TargetCreate(k, is_default)
    \/ \E k \in TargetRows, is_default \in BOOLEAN : TargetUpdate(k, is_default)
    \/ \E k \in TargetRows : SetDefault(k)
    \/ \E k \in TargetRows : TargetDestroy(k)

TargetSpec == TargetInit /\ [][TargetNext]_vars

(***************************************************************************)
(* History read off a worker's record.                                     *)
(***************************************************************************)
Started == {w \in Workers : workers[w].pc # "new"}

WritesOf(w, t, kind) ==
    SelectSeq(workers[w].wlog[t], LAMBDA e : e.kind = kind)

RECURSIVE ConcatRows(_)
ConcatRows(log) ==
    IF log = <<>> THEN <<>> ELSE Head(log).rows \o ConcatRows(Tail(log))

RECURSIVE OkRows(_)
OkRows(log) ==
    IF log = <<>> THEN 0
    ELSE (IF Head(log).out = "ok" THEN Len(Head(log).rows) ELSE 0)
         + OkRows(Tail(log))

TablesOf(w) == {TableIdsOf(w)[i] : i \in 1..Len(TableIdsOf(w))}

(***************************************************************************)
(* C1.  At most one worker thread is inside _run_job_loop for the job at   *)
(* any instant, whatever start, stop, pause and stop_all calls came        *)
(* before, a stop_job whose join timed out included.                       *)
(***************************************************************************)
C1_AtMostOneWorker == Cardinality({w \in Workers : Alive(w)}) <= 1

(***************************************************************************)
(* C2.  With batch_size N >= 1 and every read of a table appended (a       *)
(* continuous job), the table has had exactly (appended rows \div N) write *)
(* calls of a full batch, each of exactly N rows, no other write call      *)
(* while the loop runs, and after the stop exactly one more write call of  *)
(* the r pending rows when 0 < r < N.                                      *)
(***************************************************************************)
C2_BatchWrites ==
    \A w \in Started : \A t \in TablesOf(w) :
        LET N == BatchSizeOf(w)
            appended == workers[w].napp[t]
            batches == WritesOf(w, t, "batch")
            flushes == WritesOf(w, t, "flush")
        IN (JobTypeOf(w) = "continuous" /\ N >= 1) =>
             /\ Len(batches) = appended \div N
             /\ \A i \in 1..Len(batches) : Len(batches[i].rows) = N
             /\ workers[w].pc \notin {"flushing", "done"} => flushes = <<>>
             /\ workers[w].pc = "done" =>
                  /\ Len(flushes) = IF appended % N > 0 THEN 1 ELSE 0
                  /\ \A i \in 1..Len(flushes) :
                       Len(flushes[i].rows) = appended % N

(***************************************************************************)
(* C3.  Within one (job, table) every appended row is passed to the write  *)
(* callback exactly once and in read order: the write batches of the       *)
(* table, concatenated, are the appended rows 1, 2, ... without gap,       *)
(* repeat or swap, and all of them once the worker has ended.              *)
(***************************************************************************)
C3_RowsOnceInOrder ==
    \A w \in Started : \A t \in TablesOf(w) :
        LET written == ConcatRows(workers[w].wlog[t])
        IN /\ Len(written) <= workers[w].napp[t]
           /\ \A i \in 1..Len(written) : written[i] = i
           /\ workers[w].pc = "done" => Len(written) = workers[w].napp[t]

(***************************************************************************)
(* C4.  Once out of its loop the worker passes every non-empty buffer to   *)
(* the write callback exactly once, the buffers after one whose flush      *)
(* raised included, and then ends: while it flushes table idx, and when it *)
(* has ended, every earlier table has one flush call if its buffer holds   *)
(* rows and none otherwise, and the call carried the buffer.               *)
(***************************************************************************)
C4_FlushEveryBuffer ==
    \A w \in Started :
        workers[w].pc \in {"flushing", "done"} =>
          \A i \in 1..Len(TableIdsOf(w)) :
            LET t == TableIdsOf(w)[i]
                flushes == WritesOf(w, t, "flush")
                reached == workers[w].pc = "done" \/ i <= workers[w].idx
            IN IF reached /\ workers[w].buf[t] # <<>>
               THEN /\ Len(flushes) = 1
                    /\ flushes[1].rows = RowIds(workers[w].buf[t])
               ELSE flushes = <<>>

\* a worker has ended after the flush of its first table raised and the
\* buffer of its second table was flushed all the same
C4_Witness ==
    \E w \in Started :
        /\ workers[w].pc = "done"
        /\ Len(TableIdsOf(w)) = 2
        /\ \E e \in {WritesOf(w, TableIdsOf(w)[1], "flush")} :
             e # <<>> /\ e[1].out = "raise"
        /\ WritesOf(w, TableIdsOf(w)[2], "flush") # <<>>

(***************************************************************************)
(* C5.  When a running job is stopped with rows pending and the final      *)
(* flush succeeds, the JobRun finalized for the run has stopped_at set and *)
(* rows_written equal to the rows passed to write calls that succeeded,    *)
(* the rows of the final flush included.  (Stated for a stop or pause      *)
(* whose join returned because the worker had ended.)                      *)
(***************************************************************************)
C5_RunCountsFlushedRows ==
    \A w \in Started :
        (/\ workers[w].pc = "done"
         /\ call.pc = "idle" /\ ~call.timed_out
         /\ resp \in {"stopped", "paused"}
         /\ nthreads = 1
         /\ \E t \in TablesOf(w) : WritesOf(w, t, "flush") # <<>>
         /\ \A t \in TablesOf(w) : \A i \in 1..Len(workers[w].wlog[t]) :
              workers[w].wlog[t][i].kind = "flush"
                  => workers[w].wlog[t][i].out = "ok")
        => /\ ~runs[1].open
           /\ runs[1].rows_written =
                 LET total[n \in 0..Len(TableIdsOf(w))] ==
                       IF n = 0 THEN 0
                       ELSE total[n - 1]
                            + OkRows(workers[w].wlog[TableIdsOf(w)[n]])
                 IN total[Len(TableIdsOf(w))]

(***************************************************************************)
(* C6.  Once the stop Event of a worker is set, and every callback          *)
(* invocation returns, the worker begins no new iteration; it leaves the   *)
(* sleep, finishes the iteration in progress if there is one, flushes and  *)
(* terminates.                                                             *)
(***************************************************************************)
C6_StopEndsTheWorker ==
    /\ [][\A w \in Workers :
            workers[w].stop => workers'[w].iters = workers[w].iters]_vars
    /\ \A w \in Workers :
         (workers[w].stop /\ Alive(w)) ~> (workers[w].pc = "done")

\* a worker that was stopped after it had begun an iteration has flushed a
\* buffered row and returned
C6_Witness ==
    \E w \in Workers :
        /\ workers[w].stop
        /\ workers[w].pc = "done"
        /\ workers[w].iters > 0
        /\ \E t \in Tables : workers[w].buf[t] # <<>>

Used(w) ==
    [job_type |-> JobTypeOf(w), interval_ms |-> IntervalOf(w),
     table_ids |-> TableIdsOf(w), triggers |-> TriggersOf(w),
     batch_size |-> BatchSizeOf(w)]

C8_SnapshotAtStart ==
    [][\A w \in Workers :
          /\ Alive(w) => Used(w)' = Used(w)
          /\ (workers[w].pc = "new" /\ workers'[w].pc # "new")
                => Used(w)' = _build_job_config(job)]_vars

\* a worker in its second iteration or later runs on values that the job no
\* longer has
C8_Witness ==
    \E w \in Workers :
        /\ Alive(w)
        /\ workers[w].iters > 1
        /\ Used(w) # _build_job_config(job)

(***************************************************************************)
(* C9.  For a trigger job the values of a read are appended to the table's *)
(* buffer if and only if at least one trigger fires on them and is not     *)
(* suppressed by its cooldown; for a continuous job every read that        *)
(* returns values is appended.                                             *)
(***************************************************************************)
\* some trigger of the worker fires on values and is outside its cooldown
FiresOn(w, table_id, values) ==
    LET last_values == IF job_last_values.present
                       THEN job_last_values.tab[table_id] ELSE EmptyVals
    IN \E i \in 1..Len(TriggersOf(w)) :
          LET trigger == TriggersOf(w)[i]
          IN /\ trigger.field \in DOMAIN values
             /\ RawFire(trigger, values[trigger.field],
                        OldVal(last_values, trigger.field)) = "fire"
             /\ ~Suppressed(trigger, job_cooldowns.at,
                            <<table_id, trigger.field>>, clock)

C9_AppendIffTriggerFires ==
    [][\A w \in Workers : \A out \in ReadOutcomes(JobTypeOf(w)) :
          (ReadReturn(w, out) /\ out.kind = "values")
          => LET table_id == TableIdsOf(w)[workers[w].idx]
             IN (Len(workers'[w].buf[table_id])
                    = Len(workers[w].buf[table_id]) + 1)
                <=> (JobTypeOf(w) = "continuous"
                     \/ FiresOn(w, table_id, out.values))]_vars

(***************************************************************************)
(* C10.  A single change trigger with deadband d and no cooldown: the      *)
(* first value of the field never fires; a numeric value after a numeric   *)
(* value fires iff they differ by more than d; a string after a string     *)
(* fires iff the two differ, whatever d is.                                *)
(***************************************************************************)
C10_ChangeFires ==
    [][\A w \in Workers : \A out \in ReadOutcomes(JobTypeOf(w)) :
          (/\ ReadReturn(w, out)
           /\ out.kind = "values"
           /\ Len(TriggersOf(w)) = 1
           /\ TriggersOf(w)[1].operator = "change"
           /\ TriggersOf(w)[1].field = "temp"
           /\ TriggersOf(w)[1].cooldown_ms = 0)
          => LET table_id == TableIdsOf(w)[workers[w].idx]
                 d == TriggersOf(w)[1].deadband
                 new == out.values["temp"]
                 seen == /\ job_last_values.present
                         /\ "temp" \in DOMAIN job_last_values.tab[table_id]
                 old == job_last_values.tab[table_id]["temp"]
                 fired == job_metrics'.triggers_fired
                             = job_metrics.triggers_fired + 1
             IN /\ ~seen => ~fired
                /\ (seen /\ IsNum(new) /\ IsNum(old))
                      => (fired <=> Abs(new.n - old.n) > d)
                /\ (seen /\ IsStr(new) /\ IsStr(old))
                      => (fired <=> new # old)]_vars

(***************************************************************************)
(* Evaluations of a job with a single trigger on temp.  The step is a read *)
(* of worker w that returns values; RawFired says that the trigger fired   *)
(* on them, suppressed or not (either way triggers_fired counts it,        *)
(* lines 418 and 424).                                                     *)
(***************************************************************************)
SingleTrigger(w, ops) ==
    /\ Len(TriggersOf(w)) = 1
    /\ TriggersOf(w)[1].field = "temp"
    /\ TriggersOf(w)[1].operator \in ops

RawFired == job_metrics'.triggers_fired = job_metrics.triggers_fired + 1

(***************************************************************************)
(* C11.  A rising trigger with threshold t fires iff the value seen by the *)
(* preceding evaluation of the table is <= t and the new value is > t; a   *)
(* falling trigger iff the preceding value is >= t and the new one < t.    *)
(* Neither fires on the first evaluation of a run.                         *)
(***************************************************************************)
C11_EdgeFires ==
    [][\A w \in Workers : \A out \in ReadOutcomes(JobTypeOf(w)) :
          (/\ ReadReturn(w, out)
           /\ out.kind = "values"
           /\ SingleTrigger(w, {"rising", "falling"}))
          => LET table_id == TableIdsOf(w)[workers[w].idx]
                 t == TriggersOf(w)[1].value
                 new == out.values["temp"]
                 first == "temp" \notin DOMAIN workers[w].prev[table_id]
                 old == workers[w].prev[table_id]["temp"]
             IN RawFired <=>
                  /\ ~first
                  /\ IsNum(t) /\ IsNum(old) /\ IsNum(new)
                  /\ IF TriggersOf(w)[1].operator = "rising"
                     THEN old.n <= t.n /\ t.n < new.n
                     ELSE old.n >= t.n /\ t.n > new.n]_vars

(***************************************************************************)
(* C12.  A trigger with one of >, >=, <, <=, ==, != fires iff the relation *)
(* holds between the new value and the threshold, whatever was read        *)
(* before; with a null threshold it never fires.                           *)
(***************************************************************************)
Comparisons == {">", ">=", "<", "<=", "==", "!="}

C12_ComparisonFires ==
    [][\A w \in Workers : \A out \in ReadOutcomes(JobTypeOf(w)) :
          (/\ ReadReturn(w, out)
           /\ out.kind = "values"
           /\ SingleTrigger(w, Comparisons))
          => LET op == TriggersOf(w)[1].operator
                 t == TriggersOf(w)[1].value
                 new == out.values["temp"]
             IN RawFired <=>
                  /\ ~IsNone(t)
                  /\ CASE op = "==" -> new = t
                       [] op = "!=" -> new # t
                       [] op = ">"  -> IsNum(new) /\ new.n > t.n
                       [] op = ">=" -> IsNum(new) /\ new.n >= t.n
                       [] op = "<"  -> IsNum(new) /\ new.n < t.n
                       [] op = "<=" -> IsNum(new) /\ new.n <= t.n]_vars

\* a comparison trigger has fired on the first values its worker read
C12_Witness ==
    \E w \in Workers :
        /\ SingleTrigger(w, Comparisons)
        /\ workers[w].iters = 1
        /\ workers[w].pc = "writing"
        /\ job_metrics.triggers_fired = 1

(***************************************************************************)
(* C13.  A trigger with cooldown c > 0: two rows that non-suppressed fires *)
(* of the trigger put in the buffer of a table are at least c ms apart; a  *)
(* fire inside the window is counted in triggers_suppressed, appends no    *)
(* row and leaves the last-fire timestamp where it was.                    *)
(***************************************************************************)
C13_Cooldown ==
    /\ [](\A w \in Workers : \A table_id \in Tables :
            SingleTrigger(w, Operators)
            => \A i, j \in DOMAIN workers[w].buf[table_id] :
                  i < j => workers[w].buf[table_id][j].timestamp_utc
                             - workers[w].buf[table_id][i].timestamp_utc
                           >= TriggersOf(w)[1].cooldown_ms)
    /\ [][\A w \in Workers : \A out \in ReadOutcomes(JobTypeOf(w)) :
            (/\ ReadReturn(w, out)
             /\ out.kind = "values"
             /\ SingleTrigger(w, Operators)
             /\ TriggersOf(w)[1].cooldown_ms > 0
             /\ job_cooldowns.present)
            => LET table_id == TableIdsOf(w)[workers[w].idx]
                   key == <<table_id, "temp">>
                   last_fire == job_cooldowns.at[key]
                   inside == /\ last_fire >= 0
                             /\ clock - last_fire < TriggersOf(w)[1].cooldown_ms
               IN (RawFired /\ inside)
                  => /\ job_metrics'.triggers_suppressed
                          = job_metrics.triggers_suppressed + 1
                     /\ workers'[w].buf = workers[w].buf
                     /\ job_cooldowns'.at[key] = last_fire]_vars

(***************************************************************************)
(* C14.  An evaluation of one trigger whose field is among the values read *)
(* adds exactly 1 to triggers_evaluated, whether the trigger fired, was    *)
(* suppressed or did not fire.  (Evaluations that end in an exception are  *)
(* left aside here.)                                                       *)
(***************************************************************************)
C14_EvaluatedOnce ==
    [][\A w \in Workers : \A out \in ReadOutcomes(JobTypeOf(w)) :
          (/\ ReadReturn(w, out)
           /\ out.kind = "values"
           /\ SingleTrigger(w, Operators)
           /\ job_metrics'.errors = job_metrics.errors)
          => job_metrics'.triggers_evaluated
                = job_metrics.triggers_evaluated + 1]_vars

(***************************************************************************)
(* C15.  When read_callback raises, the worker records one read error and  *)
(* one error entry with the message of the exception, appends nothing to   *)
(* any buffer, and goes on with the next table of the same iteration (the  *)
(* end of the iteration after the last table); it does not terminate.      *)
(***************************************************************************)
C15_ReadErrorSkipsTable ==
    [][\A w \in Workers :
          ReadReturn(w, [kind |-> "raise", values |-> EmptyVals])
          => /\ job_metrics'.read_errors = job_metrics.read_errors + 1
             /\ job_metrics'.errors = job_metrics.errors + 1
             /\ job_metrics'.message = "read raised"
             /\ workers'[w].buf = workers[w].buf
             /\ workers'[w].iters = workers[w].iters
             /\ IF workers[w].idx < Len(TableIdsOf(w))
                THEN /\ workers'[w].pc = "reading"
                     /\ workers'[w].idx = workers[w].idx + 1
                ELSE workers'[w].pc \in {"sleep", "loop"}]_vars

\* after a read of the first table that raised, the worker reads the second
C15_Witness ==
    \E w \in Workers :
        /\ workers[w].pc = "reading"
        /\ workers[w].idx = 2
        /\ workers[w].iters = 1
        /\ job_metrics.read_errors = 1
        /\ job_metrics.message = "read raised"

(***************************************************************************)
(* C16.  When a Modbus field read of a running job fails with a socket     *)
(* error, the client pooled for the (host, port) is evicted, the next read *)
(* opens a new client, and the read_errors counter of the job is one more  *)
(* when the read callback has returned.                                    *)
(***************************************************************************)
C16_ModbusReadErrorCounted ==
    [][\A w \in Workers :
          LET rd == modbus.readers[w]
          IN /\ (rd.pc = "except" /\ modbus'.readers[w].pc = "raised")
                => modbus'.clients[rd.key] = NoClient
             /\ (/\ rd.pc = "idle"
                 /\ modbus.clients[DeviceOf("t1")] = NoClient
                 /\ modbus'.readers[w].pc = "io")
                => /\ modbus'.readers[w].client = modbus.nclients + 1
                   /\ modbus'.clients[DeviceOf("t1")] = modbus.nclients + 1
             /\ (rd.pc = "raised" /\ modbus'.readers[w].pc = "idle")
                => job_metrics'.read_errors = job_metrics.read_errors + 1]_vars

(***************************************************************************)
(* C17.  The Modbus pool holds one client per (host, port); a lookup       *)
(* reuses the pooled client only while it is connected, a read that fails  *)
(* for any reason leaves no client for its key in the pool, and a read on  *)
(* a key without a pooled client connects a new client and stores it.      *)
(***************************************************************************)
C17_ModbusPool ==
    [][\A r \in Workers :
          LET rd == modbus.readers[r]
              to == modbus'.readers[r]
          IN /\ (/\ rd.pc = "idle"
                 /\ to.pc = "io"
                 /\ to.client = modbus.clients[to.key])
                => modbus.connected[to.client]
             /\ (rd.pc \in {"idle", "except"} /\ to.pc \in {"raised", "refused"})
                => modbus'.clients[to.key] = NoClient
             /\ (/\ rd.pc = "idle"
                 /\ to.pc = "io"
                 /\ modbus.clients[to.key] = NoClient)
                => /\ to.client = modbus.nclients + 1
                   /\ modbus'.clients[to.key] = to.client
                   /\ modbus'.connected[to.client]]_vars

(***************************************************************************)
(* C18.  Two threads never use the client pooled for a (host, port) at the *)
(* same time: at most one register read is in flight on a client, and no   *)
(* client is closed by one thread while the read of another thread on it   *)
(* is in flight.                                                           *)
(***************************************************************************)
InFlight(r, c) ==
    modbus.readers[r].pc = "io" /\ modbus.readers[r].client = c

C18_ModbusReadsExclusive ==
    /\ [](\A c \in Clients : Cardinality({r \in Workers : InFlight(r, c)}) <= 1)
    /\ [][\A r \in Workers : \A c \in Clients :
             (InFlight(r, c) /\ modbus.connected[c] /\ ~modbus'.connected[c])
             => modbus'.readers[r].pc = "except"]_vars

(***************************************************************************)
(* C19.  A pooled OPC UA session stays in the pool across successful       *)
(* reads; when read_value fails, the session and every cached node handle  *)
(* of the endpoint are removed, and a read on an endpoint without a pooled *)
(* session opens a new session.                                            *)
(***************************************************************************)
C19_OpcuaEviction ==
    [][\A r \in Workers :
          LET rd == opcua.readers[r]
              to == opcua'.readers[r]
          IN /\ (rd.pc = "io" /\ to.pc = "returned")
                => /\ opcua'.clients = opcua.clients
                   /\ opcua'.nodes = opcua.nodes
             /\ (rd.pc = "except" /\ to.pc = "raised")
                => /\ opcua'.clients[rd.endpoint] = NoClient
                   /\ \A n \in NodeIds :
                        opcua'.nodes[<<rd.endpoint, n>>] = NoClient
             /\ (/\ rd.pc = "idle"
                 /\ to.pc = "lookup"
                 /\ opcua.clients[to.endpoint] = NoClient)
                => /\ to.client = opcua.nclients + 1
                   /\ opcua'.clients[to.endpoint] = to.client
                   /\ opcua'.connected[to.client]]_vars

(***************************************************************************)
(* C20.  When the insert of a batch or the DDL of a migration fails on a   *)
(* storage target, the engine pooled for the target is disposed and        *)
(* removed; a failed batch insert is counted as one write error.           *)
(***************************************************************************)
\* write_callback of a full batch returns False to worker w
InsertFailed(w) ==
    /\ workers[w].pc = "writing"
    /\ \E t \in Tables :
         /\ workers[w].wlog[t] # <<>>
         /\ workers'[w].wlog[t] # <<>>
         /\ workers[w].wlog[t][Len(workers[w].wlog[t])].out = "pending"
         /\ workers'[w].wlog[t][Len(workers'[w].wlog[t])].out = "fail"

C20_StorageErrorDisposes ==
    [][/\ \A w \in Workers :
            InsertFailed(w)
            => /\ storage'.engines[TargetOf("t1")] = NoEngine
               /\ job_metrics'.write_errors = job_metrics.write_errors + 1
       /\ \A key \in Targets :
            (storage.status[key] # "error" /\ storage'.status[key] = "error")
            => storage'.engines[key] = NoEngine]_vars

(***************************************************************************)
(* C21.  When the write call of a full batch returns False, the rows of    *)
(* the batch are discarded: the buffer is emptied and no later write call  *)
(* of the table carries any of them; writes and write_errors are one more  *)
(* and rows_written is unchanged.                                          *)
(***************************************************************************)
Range(seq) == {seq[i] : i \in 1..Len(seq)}

C21_FailedBatchDiscarded ==
    /\ [](\A w \in Started : \A t \in TablesOf(w) :
            LET log == workers[w].wlog[t]
            IN \A i \in 1..Len(log) : \A j \in (i + 1)..Len(log) :
                 (log[i].kind = "batch" /\ log[i].out = "fail")
                 => Range(log[i].rows) \cap Range(log[j].rows) = {})
    /\ [][\A w \in Workers :
             WriteReturn(w, "fail")
             => /\ workers'[w].buf[TableOf(w)] = <<>>
                /\ job_metrics'.writes = job_metrics.writes + 1
                /\ job_metrics'.write_errors = job_metrics.write_errors + 1
                /\ job_metrics'.rows_written = job_metrics.rows_written]_vars

\* a batch whose write returned False is followed by another write call of
\* the table
C21_Witness ==
    \E w \in Started : \E t \in TablesOf(w) :
        LET log == workers[w].wlog[t]
        IN /\ Len(log) >= 2
           /\ log[1].kind = "batch"
           /\ log[1].out = "fail"
           /\ job_metrics.write_errors >= 1

(***************************************************************************)
(* C22.  Every row the worker passes to the write callback, and every row  *)
(* insert_row or insert_batch sends to the database, has a timestamp_utc:  *)
(* a row without one gets the time of the insert, a row with one keeps it, *)
(* and the other columns are sent as they were.                            *)
(***************************************************************************)
C22_RowsCarryTimestamp ==
    /\ \A w \in Workers : \A t \in Tables :
         \A i \in 1..Len(workers[w].buf[t]) :
            HasTimestamp(workers[w].buf[t][i])
    /\ ret.fn \in {"insert_row", "insert_batch"}
       => /\ Len(ret.sent) = Len(ret.rows)
          /\ \A i \in 1..Len(ret.rows) :
               /\ HasTimestamp(ret.sent[i])
               /\ IF HasTimestamp(ret.rows[i])
                  THEN ret.sent[i] = ret.rows[i]
                  ELSE /\ ret.sent[i].timestamp_utc = ret.now
                       /\ \A c \in DOMAIN ret.rows[i] :
                            ret.sent[i][c] = ret.rows[i][c]

\* a batch of a row without timestamp and a row with an earlier one went in
C22_Witness ==
    /\ ret.fn = "insert_batch"
    /\ ret.success
    /\ Len(ret.rows) = 2
    /\ ~HasTimestamp(ret.rows[1])
    /\ HasTimestamp(ret.rows[2])
    /\ ret.rows[2].timestamp_utc < ret.now

(***************************************************************************)
(* C23.  For every logical table name T and every provider, create_table,  *)
(* insert_row, insert_batch, table_exists and drop_table address one       *)
(* physical table: table T of schema neuract on postgres and mssql, table  *)
(* neuract__T of the default schema on sqlite and mysql.  create_table     *)
(* adds that table and drop_table removes it, the inserts go into it, and  *)
(* table_exists tells whether it is there.                                 *)
(***************************************************************************)
PhysicalTable(table_name, provider) ==
    IF provider \in {"postgres", "mssql"}
    THEN [schema |-> "neuract", name |-> table_name]
    ELSE [schema |-> "", name |-> <<"neuract__">> \o table_name]

C23_OnePhysicalTable ==
    [][\A key \in Targets : \A table_name \in Names :
         LET table == PhysicalTable(table_name, db[key].provider)
         IN /\ migrate(key, table_name, TRUE)
               => db'[key].tables = db[key].tables \cup {table}
            /\ DropTable(key, table_name, TRUE)
               => db'[key].tables = db[key].tables \ {table}
            /\ (\E ok \in BOOLEAN :
                  \/ InsertRow(key, table_name, [temp |-> Num(0)], ok)
                  \/ InsertBatch(key, table_name, <<[temp |-> Num(0)]>>, ok))
               => /\ ret'.table = table
                  /\ ret'.success => table \in db[key].tables
            /\ DiscoverView(key, table_name, TRUE)
               => (ret'.result <=> table \in db[key].tables)]_vars

(***************************************************************************)
(* C24.  For every provider and every logical table name T, once           *)
(* create_table(T) has succeeded on a target, table_exists(T) is true and  *)
(* discover_tables on the target returns for the created table the logical *)
(* name T, the namespace prefix removed and nothing else altered, also     *)
(* when T itself begins with neuract__.                                    *)
(***************************************************************************)
C24_CreatedTableDiscovered ==
    [][\A key \in Targets : \A table_name \in Names :
         LET table == CreatedTable(table_name, db[key].provider)
         IN table \in db[key].tables
            => /\ DiscoverView(key, table_name, TRUE) => ret'.result
               /\ DiscoverTables(key, TRUE)
                  => \E e \in ret'.result :
                        e.of = table /\ e.name = table_name]_vars

(***************************************************************************)
(* C25.  For every integer address a the address parser returns (coil, a)  *)
(* for 0 <= a <= 9999, (discrete, a - 10001) for 10001 <= a <= 19999,      *)
(* (input, a - 30001) for 30001 <= a <= 39999, (holding, a - 40001) for    *)
(* 40001 <= a <= 49999, and (holding, a) for every other value: 10000,     *)
(* 20000..30000, 40000, 50000 and above, and the negative values.          *)
(***************************************************************************)
C25_AddressParsed ==
    ret.fn = "_parse_address"
    => LET a == ret.address
           kind == ret.result.register_type
           off == ret.result.address
       IN /\ (0 <= a /\ a <= 9999) => (kind = "coil" /\ off = a)
          /\ (10001 <= a /\ a <= 19999)
             => (kind = "discrete" /\ off = a - 10001)
          /\ (30001 <= a /\ a <= 39999) => (kind = "input" /\ off = a - 30001)
          /\ (40001 <= a /\ a <= 49999)
             => (kind = "holding" /\ off = a - 40001)
          /\ (\/ a < 0
              \/ a = 10000
              \/ (20000 <= a /\ a <= 30000)
              \/ a = 40000
              \/ a >= 50000) => (kind = "holding" /\ off = a)

\* 10000 was parsed as holding register 10000
C25_Witness ==
    /\ ret.fn = "_parse_address"
    /\ ret.address = 10000
    /\ ret.result = [register_type |-> "holding", address |-> 10000]

(***************************************************************************)
(* C26.  For each byte order ABCD, DCBA, BADC, CDAB the four bytes handed  *)
(* to the big-endian decoder are this permutation of the bytes of the two  *)
(* registers:                                                              *)
(*    ABCD  R1_hi R1_lo R2_hi R2_lo      DCBA  R2_lo R2_hi R1_lo R1_hi     *)
(*    BADC  R2_hi R2_lo R1_hi R1_lo      CDAB  R1_lo R1_hi R2_lo R2_hi     *)
(* and the permutation is a bijection on register pairs: the 32 bits       *)
(* encoded into two registers by the inverse permutation are the 32 bits   *)
(* decoded, and the registers decoded are those the encoding gives back.   *)
(***************************************************************************)
\* positions in <<R1_hi, R1_lo, R2_hi, R2_lo>> of the bytes decoded
Permutation(byte_order) ==
    CASE byte_order = "ABCD" -> <<1, 2, 3, 4>>
      [] byte_order = "DCBA" -> <<4, 3, 2, 1>>
      [] byte_order = "BADC" -> <<3, 4, 1, 2>>
      [] byte_order = "CDAB" -> <<2, 1, 4, 3>>

\* the two registers that hold four bytes under the inverse permutation
Encode(bytes, byte_order) ==
    LET p == Permutation(byte_order)
        b == [j \in 1..4 |-> bytes[CHOOSE i \in 1..4 : p[i] = j]]
    IN <<b[1] * 256 + b[2], b[3] * 256 + b[4]>>

C27_Pacing ==
    [][\A w \in Workers :
         LET interval == IntervalOf(w) \div 1000
             started == workers[w].loop_start
             took == workers[w].elapsed
         IN /\ SleepTimeout(w)
               => /\ took < interval
                  /\ clock' = started + interval
            /\ (LoopTest(w) /\ KeepLooping(w) /\ workers[w].iters >= 1)
               => /\ workers'[w].iters = workers[w].iters + 1
                  /\ workers'[w].loop_start =
                        IF took < interval THEN started + interval
                        ELSE started + took]_vars

\* the second iteration of a job of interval two seconds began at 2, the
\* first having taken one second
C27_Witness ==
    \E w \in Started :
       /\ workers[w].pc = "reading"
       /\ workers[w].iters = 2
       /\ IntervalOf(w) = 2000
       /\ workers[w].elapsed = 1
       /\ workers[w].loop_start = 2

(***************************************************************************)
(* C28.  After any sequence of record_read, record_write and record_error  *)
(* calls each latency window holds at most 1000 samples, which are the     *)
(* latencies of the most recent successful calls, and the error list holds *)
(* at most 100 entries, which are the most recent errors in the order they *)
(* were recorded.                                                          *)
(***************************************************************************)
C28_Windows ==
    ret.fn = "JobMetrics"
    => /\ Len(job_metrics.read_latencies) <= 1000
       /\ job_metrics.read_latencies = LastN(ret.read_log, 1000)
       /\ Len(job_metrics.write_latencies) <= 1000
       /\ job_metrics.write_latencies = LastN(ret.write_log, 1000)
       /\ Len(job_metrics.error_list) <= 100
       /\ job_metrics.error_list = LastN(ret.error_log, 100)

\* more than 1000 reads succeeded, one failed, and more than 100 errors
\* were recorded
C28_Witness ==
    /\ ret.fn = "JobMetrics"
    /\ Len(ret.read_log) > 1000
    /\ Len(ret.error_log) > 100
    /\ job_metrics.reads > job_metrics.read_errors + 1000
    /\ job_metrics.read_errors > 0

(***************************************************************************)
(* C29.  The metrics summary of a job shows the error log kept for the     *)
(* job: every entry of the error list, the up to 100 most recent errors,   *)
(* is in the summary.                                                      *)
(***************************************************************************)
C29_SummaryShowsErrors ==
    [][GetMetrics
       => \A i \in 1..Len(job_metrics.error_list) :
             \E j \in 1..Len(ret'.summary.recent_errors) :
                ret'.summary.recent_errors[j] = job_metrics.error_list[i]]_vars

(***************************************************************************)
(* C30.  A metrics summary read while the worker records is a consistent   *)
(* snapshot: it is the summary of the metrics as they were between two     *)
(* complete record operations, those before the operation in progress or   *)
(* those after it; it never shows writes incremented without the           *)
(* rows_written or write_errors that go with it.                           *)
(***************************************************************************)
C30_ConsistentSnapshot ==
    [][GetMetrics
       => LET after == IF ret.pending = NoPending THEN job_metrics
                       ELSE record_write_end(job_metrics,
                                             ret.pending.latency_ms,
                                             ret.pending.rows,
                                             ret.pending.success)
          IN ret'.summary \in {get_summary(ret.before),
                               get_summary(after)}]_vars

(***************************************************************************)
(* C33.  After every trigger evaluation of a table the stored last value   *)
(* of every field present in the values read is the value just read,       *)
(* whether a trigger fired, was suppressed or did not fire, and the stored *)
(* last value of a field absent from the values read is left as it was.    *)
(***************************************************************************)
C33_LastValuesStored ==
    [][\A w \in Workers : \A out \in ReadOutcomes(JobTypeOf(w)) :
          (/\ ReadReturn(w, out)
           /\ out.kind = "values"
           /\ JobTypeOf(w) = "trigger")
          => LET table_id == TableIdsOf(w)[workers[w].idx]
                 old == IF job_last_values.present
                        THEN job_last_values.tab[table_id] ELSE EmptyVals
                 new == job_last_values'.tab[table_id]
             IN /\ job_last_values'.present
                /\ \A f \in DOMAIN out.values :
                      f \in DOMAIN new /\ new[f] = out.values[f]
                /\ \A f \in DOMAIN old \ DOMAIN out.values :
                      f \in DOMAIN new /\ new[f] = old[f]]_vars

(***************************************************************************)
(* C35.  At every iteration boundary of a running worker (the while test   *)
(* of line 286 and the sleep of lines 330-334) with batch_size >= 1, the   *)
(* buffer of each table holds fewer than batch_size rows, whatever the     *)
(* outcome of the earlier write calls (True, False or an exception), and   *)
(* no write call carries more than batch_size rows.                        *)
(***************************************************************************)
C35_BufferBelowBatchSize ==
    \A w \in Started : \A t \in TablesOf(w) :
        BatchSizeOf(w) >= 1 =>
          /\ workers[w].pc \in {"loop", "sleep"} =>
                Len(workers[w].buf[t]) < BatchSizeOf(w)
          /\ \A i \in 1..Len(workers[w].wlog[t]) :
                Len(workers[w].wlog[t][i].rows) <= BatchSizeOf(w)

(***************************************************************************)
(* C36.  Every return of the read callback to a worker adds exactly 1 to   *)
(* reads, and adds 1 to read_errors exactly when the read raised; a write  *)
(* callback that returns or raises (and an exception of the trigger        *)
(* evaluation, which is part of the step of the read) adds nothing to      *)
(* reads and nothing to read_errors.                                       *)
(***************************************************************************)
C36_ReadsCountReadCalls ==
    [][\A w \in Workers :
         /\ \A out \in ReadOutcomes(JobTypeOf(w)) :
               ReadReturn(w, out) =>
                 /\ job_metrics'.reads = job_metrics.reads + 1
                 /\ job_metrics'.read_errors =
                       job_metrics.read_errors
                         + (IF out.kind = "raise" THEN 1 ELSE 0)
         /\ \A out \in WriteOutcomes :
               WriteReturn(w, out) =>
                 /\ job_metrics'.reads = job_metrics.reads
                 /\ job_metrics'.read_errors = job_metrics.read_errors]_vars

(***************************************************************************)
(* C34.  Under any interleaving of start_job and stop_job calls for the    *)
(* job, a live worker thread that is registered in the executor together   *)
(* with its own stop signal stays registered for as long as it lives: no   *)
(* step, the cleanup at the end of stop_job (lines 217-221) included,      *)
(* removes the registration of a worker that is still alive, so is_running *)
(* reports it and a later stop_job can halt it.                            *)
(***************************************************************************)
C34_LiveWorkerStaysRegistered ==
    [][\A w \in Workers :
         (/\ Alive(w)
          /\ job_threads = w
          /\ job_stops = w
          /\ Alive(w)')
         => /\ job_threads' = w
            /\ job_stops' = w]_vars

(***************************************************************************)
(* C39.  After any sequence of start, pause, stop and stop_all requests    *)
(* the job has at most one JobRun with stopped_at unset, and it has one    *)
(* only while its status is running: a request that takes the job out of   *)
(* the running status finalizes the open JobRun.  Stated of the states     *)
(* between requests: no stop, pause or stop_all request is in progress.    *)
(***************************************************************************)
C39_OneOpenRunWhileRunning ==
    LET open == {i \in 1..Len(runs) : runs[i].open}
    IN call.pc = "idle" =>
         /\ Cardinality(open) <= 1
         /\ open # {} => job.status = "running"

(***************************************************************************)
(* C37.  Under any interleaving of reads and disconnect calls on the OPC   *)
(* UA service, every node handle in the node cache was resolved on the     *)
(* session currently pooled for its endpoint: no cached handle survives    *)
(* the eviction of the session that resolved it, and no handle is cached   *)
(* for an endpoint that has no pooled session.                             *)
(***************************************************************************)
C37_NodeCacheOfPooledSession ==
    \A k \in Endpoints \X NodeIds :
        opcua.nodes[k] # NoClient => opcua.nodes[k] = opcua.clients[k[1]]

(***************************************************************************)
(* C38.  An OPC UA read that supplies a username and a password for an     *)
(* endpoint is served by a session that authenticated with them, and an    *)
(* anonymous read by an anonymous session: the client a read holds after   *)
(* _get_client was connected with the user and password of that read, so a *)
(* pooled session opened anonymously or with other credentials is never    *)
(* reused for it.                                                          *)
(***************************************************************************)
C38_SessionOfTheCredentials ==
    \A r \in Workers :
        LET rd == opcua.readers[r]
        IN rd.pc \in {"lookup", "resolve", "io", "returned"}
             => opcua.creds[rd.client] = set_user(rd.auth)

(***************************************************************************)
(* C31.  For every schema key set S and mapping key set M of a table the   *)
(* computed mapping health is one of mapped, partial and unmapped: mapped  *)
(* iff S is not empty and M covers S, partial iff S is not empty, M is not *)
(* empty and M does not cover S (whether or not M has keys outside S), and *)
(* unmapped iff M is empty or S is empty.                                  *)
(***************************************************************************)
HealthCalls == {"_update_mapping_health", "mapping_health"}

C31_HealthComputed ==
    ret.fn \in HealthCalls =>
      LET S == ret.schema_fields
          M == ret.mapped_fields
      IN /\ ret.health \in {"mapped", "partial", "unmapped"}
         /\ ret.health = "mapped" <=> (S # {} /\ S \subseteq M)
         /\ ret.health = "partial" <=> (S # {} /\ M # {} /\ ~(S \subseteq M))
         /\ ret.health = "unmapped" <=> (M = {} \/ S = {})

\* the health of a table whose mappings miss a schema key and have a key of
\* no schema field has been computed
C31_Witness ==
    /\ ret.fn = "_update_mapping_health"
    /\ ret.schema_fields = {"a", "b"}
    /\ ret.mapped_fields = {"a", "x"}
    /\ ret.health = "partial"

\* C31 as first stated: mapped iff M covers S, partial iff M is a non-empty
\* strict subset of S, unmapped iff M is empty or S is empty
C31_AsStated ==
    ret.fn \in HealthCalls =>
      LET S == ret.schema_fields
          M == ret.mapped_fields
      IN /\ ret.health \in {"mapped", "partial", "unmapped"}
         /\ ret.health = "mapped" <=> S \subseteq M
         /\ ret.health = "partial" <=> (M # {} /\ M \subseteq S /\ M # S)
         /\ ret.health = "unmapped" <=> (M = {} \/ S = {})

(***************************************************************************)
(* C40.  After any sequence of mapping operations (create, update, delete, *)
(* bulk, import, copy_from) and schema-field operations (add_field,        *)
(* remove_field, schema update with fields), the stored mapping_health of  *)
(* each table equals the health computed from the current schema keys and  *)
(* the table's current mapping keys.                                       *)
(***************************************************************************)
C40_StoredHealthCurrent ==
    \A t \in Tables :
        orm.mapping_health[t] =
            _update_mapping_health(orm.fields, orm.mappings[t])

(***************************************************************************)
(* C32.  After any sequence of storage-target create, update, set_default  *)
(* and delete operations exactly one storage target has is_default set:    *)
(* never two, and never none once a default has been chosen.               *)
(***************************************************************************)
Defaults(rows) ==
    {k \in TargetRows : rows.targets[k].present /\ rows.targets[k].is_default}

C32_OneDefaultTarget ==
    /\ [](Cardinality(Defaults(orm)) <= 1)
    /\ [][Cardinality(Defaults(orm)) = 1
            => Cardinality(Defaults(orm')) = 1]_vars

====
